---------------------------- MODULE Spec2Model ----------------------------
(***************************************************************************)
(* Model of the rule evaluation engine (backend/core/rules_engine.py), as  *)
(* it is driven by the re-evaluate endpoint (backend/api/endpoints.py).    *)
(* and of the LLM invocation with its fallback (backend/ai/agent.py).      *)
(*                                                                         *)
(* Conventions                                                             *)
(*  - A Python str is a TLA+ string; Len, SubSeq and \o act on it.         *)
(*  - A Python dict that keeps insertion order is a sequence of            *)
(*    [name, stats] items with pairwise distinct names.                    *)
(*  - A column profile is a record whose DOMAIN holds exactly the fields   *)
(*    that are present; an absent field is absent from the DOMAIN.         *)
(*  - A score is an exact rational [num, den] in lowest terms (den > 0);   *)
(*    Python computes the same quotients in binary floating point.         *)
(*  - A call either returns a value or raises; a raise is the record       *)
(*    [raised |-> <exception name>].                                       *)
(***************************************************************************)
EXTENDS Integers, Sequences, FiniteSets, TLC

VARIABLES
    metadata,       \* the request's metadata (ReEvaluateRequest.metadata)
    standard,       \* the request's standard text (ReEvaluateRequest.standard)
    now,            \* the wall clock, as a proleptic Gregorian day ordinal
    pc,             \* position of the request handler
    engine,         \* the RulesEngine instance of the request, or NoEngine
    rule_results,   \* what run_compliance gave the handler, or NoResult
    runs,           \* evaluations of this metadata started so far
    log,            \* history: the completed evaluations, oldest first
    calls,          \* the calls of run_compliance that share the engine, in
                    \* the order they began
    llm             \* the invocation of the LLM with fallback in progress, or
                    \* NoInvocation

vars == <<metadata, standard, now, pc, engine, rule_results, runs, log, calls, llm>>

-----------------------------------------------------------------------------
(* Bounds of the model *)

\* columns per metadata
MaxCols == 2
\* evaluations of one metadata (the first request and its resubmissions)
MaxRuns == 2
\* days the clock may advance during a behaviour
MaxTicks == 1
\* total_rows and unique_count are multiples of RowUnit, up to MaxRowUnits units
RowUnit == 50
MaxRowUnits == 2
\* calls of run_compliance that share one engine
MaxCalls == 2
\* columns of one role in a metadata that holds many of them
MaxWide == 21
\* foreign-key columns in a metadata that holds many of them
MaxFk == 6

\* the greatest number of columns of the high-null metadata: 11 columns over
\* 90% nulls take accuracy_null_clusters below its clamp
MaxHighNull == 11

-----------------------------------------------------------------------------
(* Text: str.upper, str.lower, the `in` operator on str *)

UpperChar(ch) ==
    CASE ch = "a" -> "A" [] ch = "b" -> "B" [] ch = "c" -> "C" [] ch = "d" -> "D"
      [] ch = "e" -> "E" [] ch = "f" -> "F" [] ch = "g" -> "G" [] ch = "h" -> "H"
      [] ch = "i" -> "I" [] ch = "j" -> "J" [] ch = "k" -> "K" [] ch = "l" -> "L"
      [] ch = "m" -> "M" [] ch = "n" -> "N" [] ch = "o" -> "O" [] ch = "p" -> "P"
      [] ch = "q" -> "Q" [] ch = "r" -> "R" [] ch = "s" -> "S" [] ch = "t" -> "T"
      [] ch = "u" -> "U" [] ch = "v" -> "V" [] ch = "w" -> "W" [] ch = "x" -> "X"
      [] ch = "y" -> "Y" [] ch = "z" -> "Z" [] OTHER -> ch

LowerChar(ch) ==
    CASE ch = "A" -> "a" [] ch = "B" -> "b" [] ch = "C" -> "c" [] ch = "D" -> "d"
      [] ch = "E" -> "e" [] ch = "F" -> "f" [] ch = "G" -> "g" [] ch = "H" -> "h"
      [] ch = "I" -> "i" [] ch = "J" -> "j" [] ch = "K" -> "k" [] ch = "L" -> "l"
      [] ch = "M" -> "m" [] ch = "N" -> "n" [] ch = "O" -> "o" [] ch = "P" -> "p"
      [] ch = "Q" -> "q" [] ch = "R" -> "r" [] ch = "S" -> "s" [] ch = "T" -> "t"
      [] ch = "U" -> "u" [] ch = "V" -> "v" [] ch = "W" -> "w" [] ch = "X" -> "x"
      [] ch = "Y" -> "y" [] ch = "Z" -> "z" [] OTHER -> ch

RECURSIVE upper(_)
upper(s) ==
    IF Len(s) = 0 THEN ""
    ELSE UpperChar(SubSeq(s, 1, 1)) \o upper(SubSeq(s, 2, Len(s)))

RECURSIVE lower(_)
lower(s) ==
    IF Len(s) = 0 THEN ""
    ELSE LowerChar(SubSeq(s, 1, 1)) \o lower(SubSeq(s, 2, Len(s)))

\* needle in hay
StrIn(needle, hay) ==
    \E i \in 1..(Len(hay) - Len(needle) + 1) :
        SubSeq(hay, i, i + Len(needle) - 1) = needle

\* hay ends with needle
EndsWith(hay, needle) ==
    /\ Len(hay) >= Len(needle)
    /\ SubSeq(hay, Len(hay) - Len(needle) + 1, Len(hay)) = needle

-----------------------------------------------------------------------------
(* Regular expressions.  Every pattern of the engine is an alternation of   *)
(* literals, `id$`, or `.+_id$`; a pattern is modelled as the sequence of   *)
(* its literal alternatives, all of them lower-case in the source.          *)

\* re_search without re.IGNORECASE
re_searchCaseSensitive(alts, col) ==
    \E k \in 1..Len(alts) : StrIn(alts[k], col)

\* re.search(lit1|lit2|..., col, re.IGNORECASE)
re_search(alts, col) ==
    LET s == lower(col)
    IN  \E k \in 1..Len(alts) : StrIn(alts[k], s)

\* `$`: the end of the string, or just before a newline that ends the string
AtEnd(s, lit) == EndsWith(s, lit) \/ EndsWith(s, lit \o "\n")

\* re.search(lit$, col, re.IGNORECASE)
re_search_end(lit, col) == AtEnd(lower(col), lit)

\* re_match_plus_end for the pattern lit$, without the leading .+
re_match_end(lit, col) == AtEnd(lower(col), lit)

\* re.match(.+lit$, col, re.IGNORECASE): at least one character that is not
\* a newline precedes the literal, and everything before it is on one line
re_match_plus_end(lit, col) ==
    LET s == lower(col)
        body == IF EndsWith(s, lit \o "\n") THEN SubSeq(s, 1, Len(s) - 1) ELSE s
    IN  /\ AtEnd(s, lit)
        /\ Len(body) > Len(lit)
        /\ ~StrIn("\n", SubSeq(body, 1, Len(body) - Len(lit)))

-----------------------------------------------------------------------------
(* Exact rationals *)

RECURSIVE GCD(_, _)
GCD(a, b) == IF b = 0 THEN a ELSE GCD(b, a % b)

Abs(n) == IF n < 0 THEN -n ELSE n

\* n / d for d > 0
Frac(n, d) ==
    LET g == GCD(Abs(n), d)
    IN  IF n = 0 THEN [num |-> 0, den |-> 1]
        ELSE [num |-> n \div g, den |-> d \div g]

Num(n) == [num |-> n, den |-> 1]

Gt(q, k) == q.num > k * q.den
Eq(q, k) == q.num = k * q.den
\* Max0 without the clamp
Max0Unclamped(q) == q

\* max(0, q)
Max0(q) == IF q.num < 0 THEN Num(0) ELSE q

RECURSIVE SumSeq(_)
SumSeq(s) == IF s = <<>> THEN 0 ELSE Head(s) + SumSeq(Tail(s))

-----------------------------------------------------------------------------
(* dict *)

EmptyDict == [kind |-> "dict", items |-> <<>>]

\* dict.get(key, default) on a record
Get(d, key, default) == IF key \in DOMAIN d THEN d[key] ELSE default

\* dict.keys(), in insertion order
Keys(cols) == [i \in 1..Len(cols.items) |-> cols.items[i].name]

\* cols[c]
Item(cols, c) ==
    (CHOOSE i \in 1..Len(cols.items) : cols.items[i].name = c)

Stats(cols, c) == cols.items[Item(cols, c)].stats

Raise(exc) == [raised |-> exc]
Raised(v) == "raised" \in DOMAIN v

\* Result whose weight is computed from the outcome of the check
ResultWeightedByOutcome(score, weight, passed, details) ==
    [score |-> score, weight |-> IF passed THEN weight ELSE 0, passed |-> passed,
     details |-> details]

\* one rule result: {"score": ..., "weight": ..., "passed": ..., "details": ...}
Result(score, weight, passed, details) ==
    [score |-> score, weight |-> weight, passed |-> passed, details |-> details]

-----------------------------------------------------------------------------
(* RulesEngine *)

NoEngine == [none |-> TRUE]
NoInvocation == [none |-> TRUE]
NoResult == [none |-> TRUE]

\* RulesEngine.__init__
RulesEngine(md) ==
    [metadata   |-> md,
     columns    |-> Get(md, "columns", EmptyDict),
     total_rows |-> Get(md, "total_rows", 0),
     results    |-> <<>>]

\* self.columns.keys() exists for a dict only
KeysError(self) ==
    IF self.columns.kind = "dict" THEN "" ELSE "AttributeError"

\* `for col in self.columns` iterates a dict or a list, not None
IterError(self) ==
    IF self.columns.kind = "null" THEN "TypeError" ELSE ""

\* RulesEngine._get_columns_by_pattern, for a dict
_get_columns_by_pattern(self, alts) ==
    SelectSeq(Keys(self.columns), LAMBDA col : re_search(alts, col))

\* ColumnsEnding for the pattern lit, without the closing $
ColumnsHolding(self, lit) ==
    SelectSeq(Keys(self.columns), LAMBDA col : re_search(<<lit>>, col))

\* [col for col in self.columns.keys() if re.search(r"id$", col, re.IGNORECASE)]
ColumnsEnding(self, lit) ==
    SelectSeq(Keys(self.columns), LAMBDA col : re_search_end(lit, col))

\* sum(self.columns[c].get(field, 0) for c in cols)
SumField(self, cols, field) ==
    SumSeq([i \in 1..Len(cols) |-> Get(Stats(self.columns, cols[i]), field, 0)])

\* the columns among cols that do not carry field
Lacking(self, cols, field) ==
    SelectSeq(cols, LAMBDA c : field \notin DOMAIN Stats(self.columns, c))

-----------------------------------------------------------------------------
(* GDPR *)

run_gdpr(self) ==
    LET pii_cols == _get_columns_by_pattern(self,
                        <<"email", "phone", "ssn", "name", "address", "birth", "gender">>)
        score_1 == 100
        null_pii == SelectSeq(pii_cols,
                        LAMBDA c : Get(Stats(self.columns, c), "null_percentage", 0) > 80)
        score_2 == Max0(Num(100 - Len(null_pii) * 20))
        has_setup == _get_columns_by_pattern(self,
                        <<"consent", "opt_in", "legal", "contract">>) # <<>>
        score_3 == IF has_setup \/ pii_cols = <<>> THEN 100 ELSE 50
        retention_cols == _get_columns_by_pattern(self,
                        <<"retention", "expires", "ttl", "deleted_at">>)
        score_4 == IF retention_cols # <<>> THEN 100 ELSE 0
        audit_cols == _get_columns_by_pattern(self,
                        <<"audit", "log", "updated_by", "modified_by">>)
        score_5 == IF audit_cols # <<>> THEN 100 ELSE 20
        score_6 == IF _get_columns_by_pattern(self, <<"ssn", "password">>) # <<>>
                   THEN 0 ELSE 100
    IN  IF KeysError(self) # "" THEN Raise(KeysError(self)) ELSE
        [gdpr_purpose_limitation |->
            Result(Num(score_1), 5, score_1 > 90, <<"PII fields have declared purpose">>),
         gdpr_data_minimization |->
            Result(score_2, 5, Gt(score_2, 80), <<"No unused/high-null PII fields">>),
         gdpr_lawful_basis |->
            Result(Num(score_3), 5, score_3 > 80, <<"Lawful basis reference found">>),
         gdpr_storage_limitation |->
            Result(Num(score_4), 4, score_4 > 0, <<"Data retention attributes found">>),
         gdpr_access_restriction |->
            Result(Num(score_5), 4, score_5 > 50, <<"Processing/Access logs exist">>),
         gdpr_metadata_analytics |->
            Result(Num(score_6), 5, score_6 = 100, <<"No raw credentials in analytic scope">>)]

-----------------------------------------------------------------------------
(* Visa CEDP *)

run_visa_cedp(self) ==
    LET pan_cols == _get_columns_by_pattern(self, <<"pan", "credit_card", "card_num">>)
        score_3 == IF pan_cols # <<>> THEN 0 ELSE 100
        mandatory == <<"amount", "currency", "date">>
        found == SelectSeq(mandatory,
                     LAMBDA m : _get_columns_by_pattern(self, <<m>>) # <<>>)
        score_4 == Frac(Len(found) * 100, Len(mandatory))
        fraud_cols == _get_columns_by_pattern(self,
                        <<"fraud", "avs", "cvv_resp", "risk", "ip">>)
        score_5 == IF fraud_cols # <<>> THEN 100 ELSE 50
        trace_cols == _get_columns_by_pattern(self,
                        <<"trace", "correlation", "uuid", "ref_id">>)
        score_6 == IF trace_cols # <<>> THEN 100 ELSE 0
    IN  IF KeysError(self) # "" THEN Raise(KeysError(self)) ELSE
        [visa_data_classification |->
            Result(Num(100), 5, TRUE, <<"Card data fields classified">>),
         visa_secure_handling |->
            Result(Num(100), 4, TRUE, <<"Transaction attributes conform to format">>),
         visa_no_unauthorized_storage |->
            Result(Num(score_3), 5, score_3 = 100,
                   <<"No raw PAN storage outside permitted systems">>),
         visa_transaction_completeness |->
            Result(score_4, 5, Eq(score_4, 100), <<"Mandatory Visa fields present">>),
         visa_fraud_readiness |->
            Result(Num(score_5), 3, score_5 > 80, <<"Fraud monitoring attributes available">>),
         visa_cross_system_consistency |->
            Result(Num(score_6), 4, score_6 = 100, <<"Transaction identifiers consistent">>)]

-----------------------------------------------------------------------------
(* AML / FATF *)

\* KycPattern without the passport alternative
KycPatternNoPassport == <<"customer_id", "kyc", "ssn", "national_id">>

\* the KYC identifier pattern of run_aml_fatf
KycPattern == <<"customer_id", "kyc", "ssn", "national_id", "passport">>

\* score_1 of run_aml_fatf
AmlKycScore(kyc_cols) == IF kyc_cols # <<>> THEN 100 ELSE 0

run_aml_fatf(self) ==
    LET kyc_cols == _get_columns_by_pattern(self, KycPattern)
        score_1 == AmlKycScore(kyc_cols)
        addr_cols == _get_columns_by_pattern(self, <<"address", "city", "country", "zip">>)
        score_2 == IF Len(addr_cols) >= 2 THEN 100 ELSE 0
        source_cols == _get_columns_by_pattern(self,
                        <<"source_of_funds", "remitter", "origin_account", "sender">>)
        score_3 == IF source_cols # <<>> THEN 100 ELSE 0
        links == _get_columns_by_pattern(self, <<"customer_id", "account_id">>)
        score_4 == IF links # <<>> THEN 100 ELSE 0
        has_amt == _get_columns_by_pattern(self, <<"amount", "value">>) # <<>>
        has_date == _get_columns_by_pattern(self, <<"date", "time", "timestamp">>) # <<>>
        score_5 == IF has_amt /\ has_date THEN 100 ELSE 0
        audit_cols == _get_columns_by_pattern(self, <<"audit", "log", "history", "modified">>)
        score_6 == IF audit_cols # <<>> THEN 100 ELSE 0
    IN  IF KeysError(self) # "" THEN Raise(KeysError(self)) ELSE
        [aml_kyc_identifier |->
            Result(Num(score_1), 5, score_1 = 100, <<"Valid customer identity reference exists">>),
         aml_address_completeness |->
            Result(Num(score_2), 5, score_2 = 100, <<"Jurisdictional address fields present">>),
         aml_source_of_funds |->
            Result(Num(score_3), 5, score_3 = 100, <<"Origin of funds attribute populated">>),
         aml_traceability |->
            Result(Num(score_4), 5, score_4 = 100, <<"Transaction links to customer/entity">>),
         aml_suspicious_patterns |->
            Result(Num(score_5), 4, score_5 = 100, <<"Data supports volume/frequency analysis">>),
         aml_audit_trail |->
            Result(Num(score_6), 3, score_6 = 100, <<"Transaction history is traceable">>)]

-----------------------------------------------------------------------------
(* PCI DSS *)

\* CvvPattern as check_security has it, without the cid alternative
CvvPatternNoCid == <<"cvv", "cvc">>

\* the CVV pattern of run_pci_dss
CvvPattern == <<"cvv", "cvc", "cid">>

\* PciCvvScore failing on exactly one matching column
PciCvvScoreSingle(cvv_cols) == IF Len(cvv_cols) = 1 THEN 0 ELSE 100

\* score_1 of run_pci_dss
PciCvvScore(cvv_cols) == IF cvv_cols # <<>> THEN 0 ELSE 100

run_pci_dss(self) ==
    LET cvv_cols == _get_columns_by_pattern(self, CvvPattern)
        score_1 == PciCvvScore(cvv_cols)
        pan_cols == _get_columns_by_pattern(self, <<"pan", "card_num">>)
        score_2 == IF \E i \in 1..Len(pan_cols) : StrIn("raw", pan_cols[i])
                   THEN 0 ELSE 100
        sec_cols == _get_columns_by_pattern(self, <<"token", "encrypted", "key_id">>)
        score_3 == IF sec_cols # <<>> THEN 100 ELSE 50
        ttl_cols == _get_columns_by_pattern(self, <<"ttl", "purge", "expiry">>)
        score_5 == IF ttl_cols # <<>> THEN 100 ELSE 25
        track_cols == _get_columns_by_pattern(self, <<"track1", "track2", "magnetic">>)
        score_6 == IF track_cols # <<>> THEN 0 ELSE 100
    IN  IF KeysError(self) # "" THEN Raise(KeysError(self)) ELSE
        [pci_no_cvv |->
            Result(Num(score_1), 5, score_1 = 100, <<"CVV must never be stored">>),
         pci_pan_masking |->
            Result(Num(score_2), 5, score_2 = 100, <<"PAN is masked/tokenized">>),
         pci_restricted_access |->
            Result(Num(score_3), 3, score_3 > 60, <<"Card data access controls inferred">>),
         pci_secure_transmission |->
            Result(Num(100), 3, TRUE, <<"Secure channel flags check (inferred)">>),
         pci_data_lifecycle |->
            Result(Num(score_5), 4, score_5 > 50, <<"lifecycle/deletion attributes found">>),
         pci_metadata_processing |->
            Result(Num(score_6), 5, score_6 = 100, <<"No raw track data inspection">>)]

-----------------------------------------------------------------------------
(* Basel II/III *)

run_basel(self) ==
    LET amt_cols == _get_columns_by_pattern(self, <<"amount", "balance", "exposure">>)
        score_1 == IF \E i \in 1..Len(amt_cols) :
                          Get(Stats(self.columns, amt_cols[i]), "min", 0) < 0
                   THEN 0 ELSE 100
        fk_cols == _get_columns_by_pattern(self, <<"_id">>)
        score_3 == IF fk_cols # <<>>
                   THEN Max0(Frac(100 * Len(fk_cols)
                                    - SumField(self, fk_cols, "null_percentage"),
                                  Len(fk_cols)))
                   ELSE Num(100)
        id_cols == ColumnsEnding(self, "id")
        has_unique == \E i \in 1..Len(id_cols) :
                          Get(Stats(self.columns, id_cols[i]), "unique_count", 0)
                              = self.total_rows
        score_4 == IF id_cols # <<>> THEN (IF has_unique THEN 100 ELSE 50) ELSE 100
        ledger == _get_columns_by_pattern(self, <<"gl_", "ledger", "book">>)
        score_5 == IF ledger # <<>> THEN 100 ELSE 50
    IN  IF KeysError(self) # "" THEN Raise(KeysError(self)) ELSE
        [basel_amount_accuracy |->
            Result(Num(score_1), 5, score_1 = 100, <<"Amounts positive & within bounds">>),
         basel_arithmetic_consistency |->
            Result(Num(100), 4, TRUE, <<"Derived fields reconcile">>),
         basel_referential_integrity |->
            Result(score_3, 5, Gt(score_3, 90), <<"Entities referenced validly">>),
         basel_duplicate_prevention |->
            Result(Num(score_4), 5, score_4 > 90, <<"No duplicated exposure transactions">>),
         basel_cross_ledger |->
            Result(Num(score_5), 3, score_5 > 80, <<"Ledger alignment attributes">>),
         basel_timeliness |->
            Result(Num(100), 4, TRUE, <<"Data available within risk SLAs">>)]

-----------------------------------------------------------------------------
(* Dates: the order of str, datetime.fromisoformat, date.toordinal *)

\* the characters of the model's date strings, in code point order
CodePoints == " +-/0123456789:ATZabcdefghijklmnopqrstuvwxyz"

Ord(ch) == CHOOSE i \in 1..Len(CodePoints) : SubSeq(CodePoints, i, i) = ch

\* a < b for str: lexicographic by code point, a proper prefix is smaller
RECURSIVE StrLess(_, _)
StrLess(a, b) ==
    IF Len(b) = 0 THEN FALSE
    ELSE IF Len(a) = 0 THEN TRUE
    ELSE IF SubSeq(a, 1, 1) = SubSeq(b, 1, 1)
         THEN StrLess(SubSeq(a, 2, Len(a)), SubSeq(b, 2, Len(b)))
         ELSE Ord(SubSeq(a, 1, 1)) < Ord(SubSeq(b, 1, 1))

\* max(...) over a non-empty sequence of str: the first of the greatest
RECURSIVE StrMax(_)
StrMax(strs) ==
    IF Len(strs) = 1 THEN strs[1]
    ELSE LET rest == StrMax(Tail(strs))
         IN  IF StrLess(Head(strs), rest) THEN rest ELSE Head(strs)

IsDigit(ch) == StrIn(ch, "0123456789")
Digit(ch) == (CHOOSE i \in 1..10 : SubSeq("0123456789", i, i) = ch) - 1

\* int(s) for a str of digits
RECURSIVE DigitsValue(_)
DigitsValue(s) ==
    IF Len(s) = 0 THEN 0
    ELSE 10 * DigitsValue(SubSeq(s, 1, Len(s) - 1)) + Digit(SubSeq(s, Len(s), Len(s)))

IsLeap(y) == (y % 4 = 0) /\ ((y % 100 # 0) \/ (y % 400 = 0))

DaysInMonth(y, m) ==
    IF m = 2 THEN (IF IsLeap(y) THEN 29 ELSE 28)
    ELSE IF m \in {4, 6, 9, 11} THEN 30 ELSE 31

RECURSIVE DaysBeforeMonth(_, _)
DaysBeforeMonth(y, m) ==
    IF m = 1 THEN 0 ELSE DaysBeforeMonth(y, m - 1) + DaysInMonth(y, m - 1)

\* date(y, m, d).toordinal()
ToOrdinal(y, m, d) ==
    LET p == y - 1
    IN  p * 365 + (p \div 4) - (p \div 100) + (p \div 400) + DaysBeforeMonth(y, m) + d

\* the time and UTC offset that end the aware date strings of the model
MidnightUtc == "T00:00:00+00:00"

\* the datetime parsed from s is aware: s carries a UTC offset
IsAware(s) ==
    /\ Len(s) = 10 + Len(MidnightUtc)
    /\ SubSeq(s, 11, Len(s)) = MidnightUtc

\* Whether datetime.fromisoformat(s) returns, for the strings of the model:
\* a "YYYY-MM-DD", alone or followed by midnight at offset +00:00, parses
\* when it names a day of the calendar; the other strings of the model are
\* not ISO 8601 at all.
IsoParses(s) ==
    /\ Len(s) = 10 \/ IsAware(s)
    /\ SubSeq(s, 5, 5) = "-" /\ SubSeq(s, 8, 8) = "-"
    /\ \A i \in {1, 2, 3, 4, 6, 7, 9, 10} : IsDigit(SubSeq(s, i, i))
    /\ LET y == DigitsValue(SubSeq(s, 1, 4))
           m == DigitsValue(SubSeq(s, 6, 7))
           d == DigitsValue(SubSeq(s, 9, 10))
       IN  y >= 1 /\ m \in 1..12 /\ d >= 1 /\ d <= DaysInMonth(y, m)

\* datetime.fromisoformat(s), midnight of that day, as its day ordinal
FromIsoFormat(s) ==
    ToOrdinal(DigitsValue(SubSeq(s, 1, 4)), DigitsValue(SubSeq(s, 6, 7)),
              DigitsValue(SubSeq(s, 9, 10)))

-----------------------------------------------------------------------------
(* General: the eight check groups.  Each returns its results or raises.   *)

check_completeness(self) ==
    LET cols == Keys(self.columns)
        mandatory_cols == << <<"id">>, <<"amount">>, <<"date", "time">> >>
        found_mandatory == SelectSeq(mandatory_cols,
                               LAMBDA pat : \E i \in 1..Len(cols) : re_search(pat, cols[i]))
        score_1 == Frac(Len(found_mandatory) * 100, Len(mandatory_cols))
        mandatory_col_names == _get_columns_by_pattern(self, mandatory_cols[1])
                                 \o _get_columns_by_pattern(self, mandatory_cols[2])
                                 \o _get_columns_by_pattern(self, mandatory_cols[3])
        avg_non_null == IF mandatory_col_names # <<>>
                        THEN Frac(100 * Len(mandatory_col_names)
                                    - SumField(self, mandatory_col_names, "null_percentage"),
                                  Len(mandatory_col_names))
                        ELSE Num(0)
        addr_cols == _get_columns_by_pattern(self,
                        <<"address", "city", "zip", "post", "state">>)
        score_3 == IF addr_cols # <<>>
                   THEN Frac(100 * Len(addr_cols)
                               - SumField(self, addr_cols, "null_percentage"),
                             Len(addr_cols))
                   ELSE Num(0)
        kyc_cols == _get_columns_by_pattern(self,
                        <<"kyc", "passport", "ssn", "tax", "national_id", "customer_id">>)
        score_4 == IF kyc_cols # <<>> THEN 100 ELSE 0
        source_cols == _get_columns_by_pattern(self,
                        <<"source", "provenance", "scource_of_funds", "remitter">>)
        score_5 == IF source_cols # <<>> THEN 100 ELSE 0
        audit_cols == _get_columns_by_pattern(self,
                        <<"created_at", "updated_at", "audit", "timestamp", "version">>)
        score_6 == IF audit_cols # <<>> THEN 100 ELSE 0
        enhanced_cols == _get_columns_by_pattern(self,
                        <<"device", "ip", "location", "browser", "metadata">>)
        score_7 == IF enhanced_cols # <<>> THEN 100 ELSE 0
    IN  IF IterError(self) # "" THEN Raise(IterError(self))
        ELSE IF KeysError(self) # "" THEN Raise(KeysError(self))
        \* self.columns[c]["null_percentage"]
        ELSE IF Lacking(self, mandatory_col_names, "null_percentage") # <<>>
                \/ Lacking(self, addr_cols, "null_percentage") # <<>>
        THEN Raise("KeyError")
        ELSE
        [completeness_mandatory_columns |->
            Result(score_1, 4, Eq(score_1, 100), <<"Mandatory columns check">>),
         completeness_mandatory_nulls |->
            Result(avg_non_null, 4, Gt(avg_non_null, 95), <<"Critical fields non-null check">>),
         completeness_address |->
            Result(score_3, 3, Gt(score_3, 90), <<"Address fields presence">>),
         completeness_kyc_id |->
            Result(Num(score_4), 5, score_4 = 100, <<"KYC Identifier presence">>),
         completeness_source_of_funds |->
            Result(Num(score_5), 3, score_5 = 100, <<"Source of funds check">>),
         completeness_audit_trail |->
            Result(Num(score_6), 2, score_6 = 100, <<"Audit trail columns check">>),
         completeness_enhanced_data |->
            Result(Num(score_7), 1, score_7 = 100, <<"Enhanced data fields check">>)]

\* MatchAverage over the columns that carry the field only
MatchAverageSkipping(self, cols, field) ==
    LET having == SelectSeq(cols, LAMBDA c : field \in DOMAIN Stats(self.columns, c))
    IN  IF having # <<>> THEN Frac(SumField(self, having, field), Len(having))
        ELSE Num(100)

\* sum(self.columns[c].get(field, 0) for c in cols) / len(cols) if cols else 100
MatchAverage(self, cols, field) ==
    IF cols # <<>> THEN Frac(SumField(self, cols, field), Len(cols)) ELSE Num(100)

check_validity(self) ==
    LET date_cols == _get_columns_by_pattern(self, <<"date", "time">>)
        score_1 == MatchAverage(self, date_cols, "iso_date_match_percentage")
        curr_cols == _get_columns_by_pattern(self, <<"currency", "curr">>)
        score_2 == MatchAverage(self, curr_cols, "currency_code_match_percentage")
        cntry_cols == _get_columns_by_pattern(self, <<"country", "cntry", "nation">>)
        score_3 == MatchAverage(self, cntry_cols, "country_code_match_percentage")
        email_cols == _get_columns_by_pattern(self, <<"email">>)
        score_6 == MatchAverage(self, email_cols, "email_match_percentage")
    IN  [validity_date_format |->
            Result(score_1, 4, Gt(score_1, 90), <<"ISO Date format check">>),
         validity_currency_code |->
            Result(score_2, 3, Gt(score_2, 95), <<"ISO Currency code check">>),
         validity_country_code |->
            Result(score_3, 3, Gt(score_3, 95), <<"ISO Country code check">>),
         validity_name_pattern |->
            Result(Num(100), 3, TRUE, <<"Name naming convention check">>),
         validity_field_length |->
            Result(Num(100), 2, TRUE, <<"Field length truncation check">>),
         validity_regex_conformity |->
            Result(score_6, 2, Gt(score_6, 90), <<"Regex pattern conformity">>),
         validity_schema_type |->
            Result(Num(100), 1, TRUE, <<"Schema type consistency">>)]

check_accuracy(self) ==
    LET cols == Keys(self.columns)
        numeric_cols == SelectSeq(cols,
                            LAMBDA c : Get(Stats(self.columns, c), "is_numeric", FALSE))
        amount_cols == SelectSeq(numeric_cols,
                            LAMBDA col : re_search(
                                <<"amount", "price", "cost", "value", "balance">>, col))
        total_numeric == Len(amount_cols)
        suspicious_negative == Len(SelectSeq(amount_cols,
                            LAMBDA col : Get(Stats(self.columns, col), "min", 0) <= 0))
        score_2 == IF total_numeric # 0
                   THEN Frac((total_numeric - suspicious_negative) * 100, total_numeric)
                   ELSE Num(100)
        high_null_cols == SelectSeq(cols,
                            LAMBDA c : Get(Stats(self.columns, c), "null_percentage", 0) > 90)
        score_4 == IF high_null_cols = <<>> THEN Num(100)
                   ELSE Max0(Num(100 - Len(high_null_cols) * 10))
    IN  [accuracy_impossible_date |->
            Result(Num(100), 4, TRUE, <<"Logical dates only">>),
         accuracy_negative_amounts |->
            Result(score_2, 5, Eq(score_2, 100), <<"Zero/Negative amount check">>),
         accuracy_arithmetic |->
            Result(Num(100), 4, TRUE, <<"Arithmetic calculations match">>),
         accuracy_null_clusters |->
            Result(score_4, 2, Gt(score_4, 80), <<"Systemic null clusters check">>)]

\* the identifier pattern of check_uniqueness
IdPattern == <<"id", "uuid", "key">>

\* ChosenId taking the last match instead of the first
ChosenIdLast(id_cols) == IF id_cols # <<>> THEN <<id_cols[Len(id_cols)]>> ELSE <<>>

\* id_cols[0] if id_cols else None, as the sequence of the chosen columns
ChosenId(id_cols) == IF id_cols # <<>> THEN <<id_cols[1]>> ELSE <<>>

\* UniquenessPassed derived as score == 100
UniquenessPassedExact(score_1) == Eq(score_1, 100)

\* passed of uniqueness_transaction_id and uniqueness_primary_key
UniquenessPassed(score_1) == Gt(score_1, 99)

\* check_uniqueness with uniqueness_primary_key as a fixed pass, like
\* uniqueness_composite_key, instead of a reuse of score_1
check_uniquenessPrimaryFixed(self) ==
    LET id_cols == _get_columns_by_pattern(self, IdPattern)
        chosen_id == ChosenId(id_cols)
        unique_count == Get(Stats(self.columns, chosen_id[1]), "unique_count", 0)
        score_1 == IF chosen_id = <<>> THEN Num(0)
                   ELSE IF unique_count = self.total_rows THEN Num(100)
                   ELSE Frac(unique_count * 100, self.total_rows)
    IN  IF chosen_id # <<>> /\ unique_count # self.total_rows /\ self.total_rows = 0
        THEN Raise("ZeroDivisionError")
        ELSE
        [uniqueness_transaction_id |->
            Result(score_1, 5, UniquenessPassed(score_1), <<"Transaction ID uniqueness">>),
         uniqueness_composite_key |->
            Result(Num(100), 3, TRUE, <<"Row-level uniqueness">>),
         uniqueness_primary_key |->
            Result(Num(100), 2, TRUE, <<"Entity uniqueness">>)]

check_uniqueness(self) ==
    LET id_cols == _get_columns_by_pattern(self, IdPattern)
        chosen_id == ChosenId(id_cols)
        unique_count == Get(Stats(self.columns, chosen_id[1]), "unique_count", 0)
        score_1 == IF chosen_id = <<>> THEN Num(0)
                   ELSE IF unique_count = self.total_rows THEN Num(100)
                   ELSE Frac(unique_count * 100, self.total_rows)
    IN  \* unique_count / self.total_rows
        IF chosen_id # <<>> /\ unique_count # self.total_rows /\ self.total_rows = 0
        THEN Raise("ZeroDivisionError")
        ELSE
        [uniqueness_transaction_id |->
            Result(score_1, 5, UniquenessPassed(score_1), <<"Transaction ID uniqueness">>),
         uniqueness_composite_key |->
            Result(Num(100), 3, TRUE, <<"Row-level uniqueness">>),
         uniqueness_primary_key |->
            Result(score_1, 2, UniquenessPassed(score_1), <<"Entity uniqueness">>)]

check_consistency(self) ==
    [consistency_status_mismatch |->
        Result(Num(100), 4, TRUE, <<"Consistent statuses check">>),
     consistency_currency_country |->
        Result(Num(100), 3, TRUE, <<"Currency-Country alignment">>),
     consistency_schema_drift |->
        Result(Num(100), 3, TRUE, <<"Schema structural consistency">>)]

\* check_timeliness without its except clause: a failure of the try block
\* leaves the check as an exception
check_timelinessUncaught(self, clock) ==
    LET cols == Keys(self.columns)
        date_cols == SelectSeq(cols, LAMBDA c : "max_date" \in DOMAIN Stats(self.columns, c))
        most_recent_str == StrMax([i \in 1..Len(date_cols) |->
                                      Stats(self.columns, date_cols[i]).max_date])
        no_except == IsoParses(most_recent_str) /\ ~IsAware(most_recent_str)
        days_old == IF date_cols # <<>> THEN clock - FromIsoFormat(most_recent_str) ELSE 0
        score_1 == IF date_cols = <<>> THEN 100
                   ELSE IF days_old <= 30 THEN 100
                   ELSE (IF 100 - (days_old - 30) > 0 THEN 100 - (days_old - 30) ELSE 0)
    IN  IF date_cols # <<>> /\ ~no_except
        THEN Raise(IF IsoParses(most_recent_str) THEN "TypeError" ELSE "ValueError")
        ELSE
        [timeliness_dataset_age |->
            Result(Num(score_1), 4, score_1 > 80, <<"Data age: ", days_old, " days (SLA: 30)">>),
         timeliness_late_ingestion |->
            Result(Num(score_1), 2, score_1 > 80, <<"No delayed ingestion">>)]

\* check_timeliness reads the clock: clock is the day datetime.now() falls on
check_timeliness(self, clock) ==
    LET cols == Keys(self.columns)
        date_cols == SelectSeq(cols, LAMBDA c : "max_date" \in DOMAIN Stats(self.columns, c))
        most_recent_str == StrMax([i \in 1..Len(date_cols) |->
                                      Stats(self.columns, date_cols[i]).max_date])
        \* the try block ends without an exception: the string parses, and
        \* it is naive, as datetime.now() is (naive - aware is a TypeError)
        no_except == IsoParses(most_recent_str) /\ ~IsAware(most_recent_str)
        days_old == IF date_cols # <<>> /\ no_except
                    THEN clock - FromIsoFormat(most_recent_str) ELSE 0
        score_1 == IF date_cols = <<>> THEN 100
                   ELSE IF ~no_except THEN 0
                   ELSE IF days_old <= 30 THEN 100
                   ELSE (IF 100 - (days_old - 30) > 0 THEN 100 - (days_old - 30) ELSE 0)
    IN  [timeliness_dataset_age |->
            Result(Num(score_1), 4, score_1 > 80, <<"Data age: ", days_old, " days (SLA: 30)">>),
         timeliness_late_ingestion |->
            Result(Num(score_1), 2, score_1 > 80, <<"No delayed ingestion">>)]

check_integrity(self) ==
    LET cols == Keys(self.columns)
        fk_cols == SelectSeq(cols, LAMBDA c : /\ re_match_plus_end("_id", c)
                                              /\ ~StrIn("transaction", lower(c)))
        high_null_fks == SelectSeq(fk_cols,
                            LAMBDA c : Stats(self.columns, c).null_percentage > 20)
        score_1 == IF fk_cols = <<>> \/ high_null_fks = <<>> THEN Num(100)
                   ELSE Max0(Num(100 - Len(high_null_fks) * 20))
    IN  \* self.columns[c]["null_percentage"]
        IF Lacking(self, fk_cols, "null_percentage") # <<>> THEN Raise("KeyError")
        ELSE
        [integrity_referential |->
            Result(score_1, 7, Gt(score_1, 80), <<"Foreign key relationships check">>)]

check_security(self) ==
    LET pan_cols == _get_columns_by_pattern(self, <<"pan", "creditcard", "card_number">>)
        score_1 == IF pan_cols # <<>> THEN 0 ELSE 100
        cvv_cols == _get_columns_by_pattern(self, <<"cvv", "cvc">>)
        score_2 == IF cvv_cols # <<>> THEN 0 ELSE 100
    IN  [security_pan_storage |->
            Result(Num(score_1), 5, score_1 = 100, <<"No PAN stored check">>),
         security_cvv_storage |->
            Result(Num(score_2), 5, score_2 = 100, <<"No CVV stored check">>),
         security_metadata_only |->
            Result(Num(100), 2, TRUE, <<"Metadata-only enforcement">>)]

\* Update that rebinds results instead of updating it
UpdateRebind(results, next) == next

\* results.update(next): the keys of next replace those of results
Update(results, next) == next @@ results

\* RulesEngine.run_general: the checks in the order of the source; a check
\* that raises ends the run with its exception
run_general(self, clock) ==
    LET r1 == check_completeness(self)
        r2 == Update(r1, check_validity(self))
        r3 == Update(r2, check_accuracy(self))
        u  == check_uniqueness(self)
        r4 == Update(r3, u)
        r5 == Update(r4, check_consistency(self))
        r6 == Update(r5, check_timeliness(self, clock))
        i  == check_integrity(self)
        r7 == Update(r6, i)
    IN  IF Raised(r1) THEN r1
        ELSE IF Raised(u) THEN u
        ELSE IF Raised(i) THEN i
        ELSE Update(r7, check_security(self))

\* the statements of run_general: results.update(self.check_...()), in order
GeneralChecks == 8

GeneralCheck(k, self, clock) ==
    CASE k = 1 -> check_completeness(self)
      [] k = 2 -> check_validity(self)
      [] k = 3 -> check_accuracy(self)
      [] k = 4 -> check_uniqueness(self)
      [] k = 5 -> check_consistency(self)
      [] k = 6 -> check_timeliness(self, clock)
      [] k = 7 -> check_integrity(self)
      [] k = 8 -> check_security(self)

-----------------------------------------------------------------------------
(* The dispatcher *)

\* Dispatch with the PCI branch tested before the GDPR branch
DispatchPciFirst(text) ==
    LET std == upper(text)
    IN  IF StrIn("PCI", std) THEN "PCI"
        ELSE IF StrIn("GDPR", std) THEN "GDPR"
        ELSE IF StrIn("VISA", std) \/ StrIn("CEDP", std) THEN "VISA"
        ELSE IF StrIn("AML", std) \/ StrIn("FATF", std) THEN "AML"
        ELSE IF StrIn("BASEL", std) THEN "BASEL"
        ELSE "GENERAL"

\* which suite run_compliance calls for a standard text
Dispatch(text) ==
    LET std == upper(text)
    IN  IF StrIn("GDPR", std) THEN "GDPR"
        ELSE IF StrIn("VISA", std) \/ StrIn("CEDP", std) THEN "VISA"
        ELSE IF StrIn("AML", std) \/ StrIn("FATF", std) THEN "AML"
        ELSE IF StrIn("PCI", std) THEN "PCI"
        ELSE IF StrIn("BASEL", std) THEN "BASEL"
        ELSE "GENERAL"

\* RunSuite whose Basel timeliness reuses the recency score of check_timeliness
RunSuiteBaselRecency(suite, self, clock) ==
    CASE suite = "GDPR"  -> run_gdpr(self)
      [] suite = "VISA"  -> run_visa_cedp(self)
      [] suite = "AML"   -> run_aml_fatf(self)
      [] suite = "PCI"   -> run_pci_dss(self)
      [] suite = "BASEL" ->
            IF Raised(run_basel(self)) THEN run_basel(self)
            ELSE [run_basel(self) EXCEPT !.basel_timeliness.score =
                      check_timeliness(self, clock).timeliness_dataset_age.score]
      [] OTHER           -> run_general(self, clock)

\* the suite of that name, run on the engine
RunSuite(suite, self, clock) ==
    CASE suite = "GDPR"  -> run_gdpr(self)
      [] suite = "VISA"  -> run_visa_cedp(self)
      [] suite = "AML"   -> run_aml_fatf(self)
      [] suite = "PCI"   -> run_pci_dss(self)
      [] suite = "BASEL" -> run_basel(self)
      [] OTHER           -> run_general(self, clock)

\* RulesEngine.run_compliance
run_compliance(self, text, clock) == RunSuite(Dispatch(text), self, clock)

-----------------------------------------------------------------------------
(* Inputs *)

\* the row counts of the model
RowCounts == {k * RowUnit : k \in 0..MaxRowUnits}

\* the day the behaviour starts, 2024-03-01
Now0 == ToOrdinal(2024, 3, 1)

Col(name, stats) == [name |-> name, stats |-> stats]

\* the columns a metadata of the model is made of: a name and its profile
ColumnPool ==
    { Col("id", [null_percentage |-> 0, unique_count |-> 2 * RowUnit, is_numeric |-> TRUE]),
      Col("id", [null_percentage |-> 0, unique_count |-> RowUnit]),
      Col("id", <<>>),
      Col("customer_id", [null_percentage |-> 30, unique_count |-> 2 * RowUnit]),
      Col("Passport", [null_percentage |-> 95, unique_count |-> 0]),
      Col("cvv_code", [null_percentage |-> 0]),
      Col("Card_CID", [null_percentage |-> 0]),
      Col("amount", [null_percentage |-> 0, is_numeric |-> TRUE, min |-> -5]),
      Col("txn_date", [null_percentage |-> 0, iso_date_match_percentage |-> 100,
                       max_date |-> "2024-01-15"]),
      Col("created_at", [max_date |-> "n/a"]),
      Col("email", [null_percentage |-> 85, email_match_percentage |-> 92]),
      Col("city", [null_percentage |-> 5]),
      Col("notes", [null_percentage |-> 0]) }

\* the columns of the evaluations that are repeated as the clock advances:
\* the dated columns and the identifier column the General suite reads
DatedPool == {c \in ColumnPool : c.name \in {"txn_date", "created_at", "id"}}

\* the ordered dicts of at most n columns of the pool: the names are pairwise
\* distinct
RECURSIVE ColumnDicts(_, _)
ColumnDicts(pool, n) ==
    IF n = 0 THEN { <<>> }
    ELSE LET shorter == ColumnDicts(pool, n - 1)
         IN  shorter \cup
             { Append(d, c) : <<d, c>> \in
                 { <<d, c>> \in shorter \X pool :
                     /\ Len(d) = n - 1
                     /\ \A i \in 1..Len(d) : d[i].name # c.name } }

\* what a request may carry as "columns": a dict, or, against the input
\* contract, a JSON array or null
ColumnsValues(pool) ==
    { [kind |-> "dict", items |-> d] : d \in ColumnDicts(pool, MaxCols) }
      \cup { [kind |-> "list", items |-> <<"id">>], [kind |-> "null", items |-> <<>>] }

\* the metadata over a pool; "columns" may be absent, against the input contract
Metadatas(pool) ==
    { [columns |-> c, total_rows |-> n] : c \in ColumnsValues(pool), n \in RowCounts }
      \cup { [total_rows |-> n] : n \in RowCounts }

\* the max_date strings of the recency evaluations.  The days are 4 days after
\* Now0 and 10, 30, 31, 45, 129, 130 and 131 days before it; one string is a
\* day with a UTC offset; the last three are not ISO 8601.
DateStrings ==
    { "2024-03-05", "2024-02-20", "2024-01-31", "2024-01-30", "2024-01-16",
      "2023-10-24", "2023-10-23", "2023-10-22",
      "2024-02-20T00:00:00+00:00",
      "n/a", "2024-02-30", "" }

\* the columns of the recency evaluations
RecencyPool ==
    { Col("txn_date", [null_percentage |-> 0, max_date |-> d]) : d \in DateStrings }
      \cup { Col("settled_on", [null_percentage |-> 0, max_date |-> d]) :
                d \in {"2024-02-20", "2023-10-22", "n/a"} }
      \cup { Col("id", [null_percentage |-> 0, unique_count |-> RowUnit]),
             Col("notes", [null_percentage |-> 0]) }

\* the columns of the PAN evaluations: names with and without the PAN role
\* (pan, card_num), with and without "raw", in either letter case
PanPool ==
    { Col(name, [null_percentage |-> 0]) :
        name \in {"raw_pan", "RAW_PAN", "Raw_Card_Num", "card_num_raw", "pan_token",
                  "PAN", "company", "raw_data", "notes"} }

\* the columns of the amount evaluations: amount-like names and one that is
\* not, numeric or not, with a negative, zero, positive or absent min
AmountPool ==
    { Col("amount", [null_percentage |-> 0, is_numeric |-> TRUE, min |-> m]) :
        m \in {-5, 0, 3} }
      \cup { Col("amount", [null_percentage |-> 0, is_numeric |-> TRUE]),
             Col("Price", [null_percentage |-> 0, is_numeric |-> TRUE, min |-> 3]),
             Col("Price", [null_percentage |-> 0, is_numeric |-> TRUE]),
             Col("balance", [null_percentage |-> 0, is_numeric |-> FALSE, min |-> -5]),
             Col("value", [null_percentage |-> 0, min |-> -5]),
             Col("qty", [null_percentage |-> 0, is_numeric |-> TRUE, min |-> -5]) }

\* the columns of the validity evaluations: the four roles, with a match
\* percentage or without the field
ValidityPool ==
    { Col("txn_date", [null_percentage |-> 0, iso_date_match_percentage |-> 100]),
      Col("txn_date", [null_percentage |-> 0, iso_date_match_percentage |-> 80]),
      Col("txn_date", [null_percentage |-> 0]),
      Col("created_time", [null_percentage |-> 0, iso_date_match_percentage |-> 85]),
      Col("currency", [null_percentage |-> 0, currency_code_match_percentage |-> 96]),
      Col("currency", [null_percentage |-> 0]),
      Col("Country", [null_percentage |-> 0, country_code_match_percentage |-> 95]),
      Col("Country", [null_percentage |-> 0]),
      Col("email", [null_percentage |-> 0, email_match_percentage |-> 91]),
      Col("email", [null_percentage |-> 0]) }

\* a name prefix of each validity role, with the field its check averages
ValidityFields ==
    { <<"date_", "iso_date_match_percentage">>,
      <<"curr_", "currency_code_match_percentage">>,
      <<"cntry_", "country_code_match_percentage">>,
      <<"email_", "email_match_percentage">> }

Letter(i) == SubSeq("abcdefghijklmnopqrstuvwxyz", i, i)

\* n columns of one role, all with 100 in the field but the k-th, which has
\* no such field (k = 0: every column has it)
WideColumns(prefix, field, n, k) ==
    [kind |-> "dict",
     items |-> [i \in 1..n |->
                  Col(prefix \o Letter(i),
                      IF i = k THEN [null_percentage |-> 0]
                      ELSE (field :> 100) @@ [null_percentage |-> 0])]]

\* the metadata of many columns of one validity role
WideMetadatas ==
    UNION { UNION { { [columns |-> WideColumns(pf[1], pf[2], n, k),
                       total_rows |-> RowUnit] : k \in 0..n } :
                    n \in 1..MaxWide } :
            pf \in ValidityFields }

\* the columns of the integrity evaluations: names that end in _id or not,
\* with "transaction" or not, in either letter case, at 20% and 21% nulls
FkPool ==
    { Col(name, [null_percentage |-> p, unique_count |-> RowUnit]) :
        name \in {"customer_id", "ACCOUNT_ID", "transaction_id", "Transaction_Ref_ID",
                  "_id", "id", "user_identity"},
        p \in {20, 21} }

\* n foreign-key columns, the first k of them half null
FkColumns(n, k) ==
    [kind |-> "dict",
     items |-> [i \in 1..n |->
                  Col(Letter(i) \o "_id",
                      [null_percentage |-> IF i <= k THEN 50 ELSE 0,
                       unique_count |-> RowUnit])]]

\* the metadata of many foreign-key columns
FkMetadatas ==
    UNION { { [columns |-> FkColumns(n, k), total_rows |-> RowUnit] : k \in 0..n } :
            n \in 1..MaxFk }

\* the columns of the duplicate-prevention evaluations: names that end in
\* "id" or not, with a unique_count of one or two row units or without one
BaselPool ==
    { Col(name, [null_percentage |-> 0, unique_count |-> u]) :
        name \in {"id", "Customer_ID", "paid"}, u \in {RowUnit, 2 * RowUnit} }
      \cup { Col("id", [null_percentage |-> 0]),
             Col("identity", [null_percentage |-> 0, unique_count |-> RowUnit]),
             Col("notes", [null_percentage |-> 0]) }

\* the columns of the score-range evaluations.  Within the data model:
\* null and match percentages of 0, 50 and 100, a unique_count of 0, of one row
\* unit and of two, a max_date 131 days before Now0.  Outside it: a null
\* percentage of 120 and of -10, a match percentage of 130, a negative
\* unique_count.
ScorePool ==
    { Col("customer_id", [null_percentage |-> 0, unique_count |-> 0]),
      Col("customer_id", [null_percentage |-> 0, unique_count |-> RowUnit]),
      Col("customer_id", [null_percentage |-> 100, unique_count |-> 2 * RowUnit]),
      Col("customer_id", [null_percentage |-> 120, unique_count |-> RowUnit]),
      Col("customer_id", [null_percentage |-> 0, unique_count |-> 0 - RowUnit]),
      Col("city", [null_percentage |-> 0]),
      Col("city", [null_percentage |-> 100]),
      Col("city", [null_percentage |-> -10]),
      Col("email", [null_percentage |-> 100, email_match_percentage |-> 0]),
      Col("email", [null_percentage |-> 100, email_match_percentage |-> 100]),
      Col("email", [null_percentage |-> 100, email_match_percentage |-> 130]),
      Col("txn_date", [null_percentage |-> 50, iso_date_match_percentage |-> 0,
                       max_date |-> "2023-10-22"]),
      Col("amount", [null_percentage |-> 0, is_numeric |-> TRUE, min |-> -5]) }

\* n columns of personal data, every one fully null
HighNullColumns(n) ==
    [kind |-> "dict",
     items |-> [i \in 1..n |->
                  Col("email_" \o Letter(i),
                      [null_percentage |-> 100, email_match_percentage |-> 0])]]

\* the metadata of many fully null columns
HighNullMetadatas ==
    { [columns |-> HighNullColumns(n), total_rows |-> RowUnit] : n \in 1..MaxHighNull }

\* the columns of the gate evaluations: a name for each role a gate looks
\* for, two for the CVV role, one with no role, and an identifier column
\* without null_percentage, on which the General suite raises
GatePool ==
    { Col(name, [null_percentage |-> 0]) :
        name \in {"cvv", "Card_CID", "Track1", "PAN", "ssn", "customer_id", "sender",
                  "audit_log", "expires_at", "trace_uuid", "notes"} }
      \cup { Col("national_id", <<>>) }

\* the metadata of the gate evaluations
GateMetadatas ==
    { [columns |-> [kind |-> "dict", items |-> d], total_rows |-> RowUnit] :
        d \in ColumnDicts(GatePool, MaxCols) }

\* a standard text for each suite that has a gate
GateStandards == {"General Transaction", "GDPR", "Visa CEDP", "AML/FATF", "PCI DSS"}

\* one standard text for each suite
SuiteStandards ==
    {"General Transaction", "GDPR", "Visa CEDP", "AML/FATF", "PCI DSS", "Basel III"}

\* the standard texts of the model
Standards ==
    { "General Transaction", "unknown", "GDPR", "Visa CEDP", "cedp", "AML/FATF",
      "fatf", "PCI DSS", "Basel III", "PCI-GDPR-HYBRID", "gdpr+pci hybrid",
      "basel-pci", "FATF visa" }

-----------------------------------------------------------------------------
(* The request handler: re_evaluate_compliance *)

\* a request has arrived: one of the metadata with one of the standard texts
Requested(mds, stds) ==
    /\ metadata \in mds
    /\ standard \in stds
    /\ now = Now0
    /\ pc = "received"
    /\ engine = NoEngine
    /\ rule_results = NoResult
    /\ runs = 1
    /\ log = <<>>
    /\ calls = <<>>
    /\ llm = NoInvocation

\* a request has arrived with a metadata over the pool
Received(pool) == Requested(Metadatas(pool), Standards)

\* engine = RulesEngine(request.metadata)
Construct ==
    /\ pc = "received"
    /\ engine' = RulesEngine(metadata)
    /\ pc' = "constructed"
    /\ UNCHANGED <<metadata, standard, now, rule_results, runs, log, calls, llm>>

\* stats with null_percentage filled in, as stats.setdefault would leave it
WithDefault(stats) ==
    IF "null_percentage" \in DOMAIN stats THEN stats
    ELSE [null_percentage |-> 0] @@ stats

\* RunCompliance by an engine that fills absent null_percentage fields in place
RunComplianceFilling ==
    /\ pc = "constructed"
    /\ LET r == run_compliance(engine, standard, now)
       IN  /\ rule_results' = r
           /\ pc' = IF Raised(r) THEN "raised" ELSE "returned"
           /\ log' = Append(log, [suite |-> Dispatch(standard), clock |-> now,
                                  outcome |-> r])
    /\ metadata' =
          IF "columns" \in DOMAIN metadata /\ metadata.columns.kind = "dict"
          THEN [metadata EXCEPT !.columns.items =
                  [i \in 1..Len(@) |-> [@[i] EXCEPT !.stats = WithDefault(@)]]]
          ELSE metadata
    /\ UNCHANGED <<standard, now, engine, runs, calls, llm>>

\* rule_results = engine.run_compliance(request.standard); an exception
\* leaves the handler through its except clause
RunCompliance ==
    /\ pc = "constructed"
    /\ LET r == run_compliance(engine, standard, now)
       IN  /\ rule_results' = r
           /\ pc' = IF Raised(r) THEN "raised" ELSE "returned"
           /\ log' = Append(log, [suite |-> Dispatch(standard), clock |-> now,
                                  outcome |-> r])
    /\ UNCHANGED <<metadata, standard, now, engine, runs, calls, llm>>

\* the client sends the same request again: a new handler, a new engine
Resubmit ==
    /\ pc \in {"returned", "raised"}
    /\ runs < MaxRuns
    /\ runs' = runs + 1
    /\ pc' = "received"
    /\ engine' = NoEngine
    /\ rule_results' = NoResult
    /\ UNCHANGED <<metadata, standard, now, log, calls, llm>>

\* a day passes
Tick ==
    /\ now < Now0 + MaxTicks
    /\ now' = now + 1
    /\ UNCHANGED <<metadata, standard, pc, engine, rule_results, runs, log, calls, llm>>

\* one evaluation of one request
Init == Received(ColumnPool)

Next == Construct \/ RunCompliance

Spec == Init /\ [][Next]_vars

\* a request that is evaluated again while the clock advances
InitRerun == Received(DatedPool)

NextRerun == Construct \/ RunCompliance \/ Resubmit \/ Tick

SpecRerun == InitRerun /\ [][NextRerun]_vars

\* the metadata of an engine that several calls share: columns that let every
\* suite return, an identifier column that makes General raise half way, and
\* a metadata without columns
SharedMetadatas ==
    { [columns |-> [kind |-> "dict",
                    items |-> << Col("customer_id", [null_percentage |-> 30,
                                                     unique_count |-> RowUnit]),
                                 Col("txn_date", [null_percentage |-> 0,
                                                  max_date |-> "2024-01-16"]) >>],
       total_rows |-> RowUnit],
      [columns |-> [kind |-> "dict",
                    items |-> << Col("id", [null_percentage |-> 0,
                                            unique_count |-> RowUnit]) >>],
       total_rows |-> 0],
      [columns |-> [kind |-> "dict", items |-> << Col("Passport", <<>>) >>],
       total_rows |-> RowUnit],
      [total_rows |-> RowUnit] }

\* the standard texts of the calls that share an engine
CallStandards == {"General Transaction", "GDPR", "Basel III"}

\* the accumulator of a call kept in self.results, which every call shares
UpdateShared(self, call, r) ==
    LET acc == Update(self.results, r)
    IN  [self |-> [self EXCEPT !.results = acc],
         call |-> [call EXCEPT !.results = acc]]

\* results.update(r), or the assignments of a suite to its results: results
\* is a local of the call, and self is not written
UpdateLocal(self, call, r) ==
    [self |-> self, call |-> [call EXCEPT !.results = Update(@, r)]]

\* a caller that holds the engine calls run_compliance(text): the text is
\* upper-cased and its branch chosen, and the suite starts on an empty results
Call ==
    /\ pc = "constructed"
    /\ Len(calls) < MaxCalls
    /\ \E text \in CallStandards :
           calls' = Append(calls, [suite |-> Dispatch(text), at |-> 0,
                                   results |-> <<>>, state |-> "running"])
    /\ UNCHANGED <<metadata, standard, now, pc, engine, rule_results, runs, log, llm>>

\* the next statement of a running call: the next check of run_general, or
\* the body of one of the other suites
Statement(call, self, clock) ==
    IF call.suite = "GENERAL"
    THEN GeneralCheck(call.at + 1, self, clock)
    ELSE RunSuite(call.suite, self, clock)

\* the call and the engine after a statement that gave r: the call ends when
\* the statement raised or was the last, and its outcome is then logged
Advance(self, call, clock, r) ==
    LET last == call.suite # "GENERAL" \/ call.at + 1 = GeneralChecks
        upd == UpdateLocal(self, call, r)
    IN  IF Raised(r)
        THEN [self |-> self,
              call |-> [call EXCEPT !.state = "raised", !.results = r],
              logged |-> << [suite |-> call.suite, clock |-> clock,
                             outcome |-> r] >>]
        ELSE [self |-> upd.self,
              call |-> [upd.call EXCEPT
                           !.at = @ + 1,
                           !.state = IF last THEN "returned" ELSE "running"],
              logged |-> IF last
                         THEN << [suite |-> call.suite, clock |-> clock,
                                  outcome |-> upd.call.results] >>
                         ELSE <<>>]

\* a running call executes its next statement
Step ==
    \E c \in 1..Len(calls) :
        /\ calls[c].state = "running"
        /\ \E a \in {Advance(engine, calls[c], now,
                             Statement(calls[c], engine, now))} :
               /\ calls' = [calls EXCEPT ![c] = a.call]
               /\ engine' = a.self
               /\ log' = log \o a.logged
        /\ UNCHANGED <<metadata, standard, now, pc, rule_results, runs, llm>>

\* an engine whose run_compliance is called several times, the calls
\* interleaved statement by statement
InitCalls == Requested(SharedMetadatas, {"General Transaction"})

NextCalls == Construct \/ Call \/ Step

SpecCalls == InitCalls /\ [][NextCalls]_vars

\* one evaluation of a dated metadata under the General suite
InitRecency == Requested(Metadatas(RecencyPool), {"General Transaction"})

SpecRecency == InitRecency /\ [][Next]_vars

\* one evaluation of a request whose columns are those one check reads,
\* under the suite of that check
InitProfiles ==
    \/ Requested(Metadatas(PanPool), {"PCI DSS"})
    \/ Requested(Metadatas(AmountPool), {"General Transaction"})
    \/ Requested(Metadatas(ValidityPool) \cup WideMetadatas, {"General Transaction"})
    \/ Requested(Metadatas(FkPool) \cup FkMetadatas, {"General Transaction"})
    \/ Requested(Metadatas(BaselPool), {"Basel III"})

SpecProfiles == InitProfiles /\ [][Next]_vars

\* one evaluation of a metadata with statistics at and beyond the ends of the
\* data model, under each suite
InitScores == Requested(Metadatas(ScorePool) \cup HighNullMetadatas, SuiteStandards)

SpecScores == InitScores /\ [][Next]_vars

\* one evaluation of a metadata of gate columns, under each suite with a gate
InitGates == Requested(GateMetadatas, GateStandards)

SpecGates == InitGates /\ [][Next]_vars

-----------------------------------------------------------------------------
(* The LLM invocation with fallback: invoke_llm_with_fallback,              *)
(* invoke_llm_with_fallback_async and fallback_gemini_rapidapi.  A message  *)
(* is a record [role, content]; an exception is the record [raised, text]   *)
(* of its type name and of str(e).                                          *)

\* the message lists of the invocations
MessageLists ==
    { << [role |-> "human", content |-> "Summarise the scores"] >>,
      << [role |-> "system", content |-> "You are an auditor"],
         [role |-> "human", content |-> "Summarise the scores"] >>,
      << [role |-> "system", content |-> "You are an auditor"],
         [role |-> "human", content |-> "Summarise the scores"],
         [role |-> "ai", content |-> "The scores are low"],
         [role |-> "human", content |-> "Why"] >> }

\* what llm.invoke or llm.ainvoke may raise
PrimaryErrors ==
    { [raised |-> "ResourceExhausted",
       text |-> "429 Resource has been exhausted (e.g. check quota)."],
      [raised |-> "InvalidArgument", text |-> "400 API key not valid"],
      [raised |-> "InternalServerError", text |-> "500 An internal error has occurred"],
      [raised |-> "ChatGoogleGenerativeAIError", text |-> "ResourceExhausted"],
      [raised |-> "ValueError", text |-> "QUOTA exceeded"],
      [raised |-> "ConnectError", text |-> "[Errno 11001] getaddrinfo failed"],
      [raised |-> "ValueError", text |-> "request 14290 rejected"],
      [raised |-> "PermissionDenied", text |-> "403 Forbidden"],
      [raised |-> "ServiceUnavailable", text |-> "503 Service Unavailable"],
      [raised |-> "DeadlineExceeded", text |-> "504 Deadline Exceeded"],
      [raised |-> "ValueError", text |-> "Resource Exhausted"],
      [raised |-> "TimeoutError", text |-> ""] }

\* what llm.invoke or llm.ainvoke may return
PrimaryResponses == { [role |-> "ai", content |-> "The scores are low"] }

\* what the request of the fallback may meet: no connection, an HTTP error
\* status, a body that is not JSON, or a JSON object with or without
\* candidates, each candidate reduced to its text
FallbackReplies ==
    { [post |-> "ConnectionError"],
      [post |-> "sent", status |-> 429],
      [post |-> "sent", status |-> 500],
      [post |-> "sent", status |-> 200, json |-> [kind |-> "invalid"]],
      [post |-> "sent", status |-> 200, json |-> [kind |-> "object"]],
      [post |-> "sent", status |-> 200,
       json |-> [kind |-> "object", candidates |-> <<>>]],
      [post |-> "sent", status |-> 200,
       json |-> [kind |-> "object", candidates |-> <<"">>]],
      [post |-> "sent", status |-> 200,
       json |-> [kind |-> "object", candidates |-> <<"Scores are low", "Or not">>]] }

\* AIMessage(content=content)
AIMessage(content) == [role |-> "ai", content |-> content]

\* the loop of fallback_gemini_rapidapi over the messages from the i-th on:
\* system messages accumulate in system_instruction, which the next human
\* message takes in front of its text
RECURSIVE ContentsParts(_, _, _)
ContentsParts(messages, i, system_instruction) ==
    IF i > Len(messages) THEN <<>>
    ELSE LET msg == messages[i]
         IN  CASE msg.role = "system" ->
                    ContentsParts(messages, i + 1,
                                  system_instruction \o msg.content \o "\n\n")
               [] msg.role = "human" ->
                    << [role |-> "user",
                        text |-> IF system_instruction # ""
                                 THEN "System Instruction:\n" \o system_instruction
                                        \o "\n\nUser Question:\n" \o msg.content
                                 ELSE msg.content] >>
                      \o ContentsParts(messages, i + 1, "")
               [] msg.role = "ai" ->
                    << [role |-> "model", text |-> msg.content] >>
                      \o ContentsParts(messages, i + 1, system_instruction)

\* fallback_gemini_rapidapi(messages), the request meeting reply: the answer,
\* or the exception that its except clause raises again
fallback_gemini_rapidapi(messages, reply) ==
    LET payload == [contents |-> ContentsParts(messages, 1, "")]
        answer == IF "candidates" \in DOMAIN reply.json
                  THEN reply.json.candidates[1]
                  ELSE ""
    IN  IF reply.post # "sent" THEN [raised |-> reply.post, text |-> "no connection"]
        ELSE IF reply.status >= 400
        THEN [raised |-> "HTTPError", text |-> "status of the fallback"]
        ELSE IF reply.json.kind # "object"
        THEN [raised |-> "JSONDecodeError", text |-> "Expecting value"]
        ELSE IF "candidates" \in DOMAIN reply.json /\ reply.json.candidates = <<>>
        THEN [raised |-> "IndexError", text |-> "list index out of range"]
        ELSE IF answer = ""
        THEN [raised |-> "ValueError", text |-> "Empty response from RapidAPI"]
        ELSE [content |-> answer, sent |-> payload]

\* the texts the except clause looks for in the lower-cased error text
FallbackWords == <<"400", "429", "500", "resourceexhausted", "quota", "getaddrinfo">>

\* ShouldFallback for an except clause that falls back on every error
ShouldFallbackAlways(e) == TRUE

\* any(x in err_str for x in [...]) with err_str = str(e).lower()
ShouldFallback(e) ==
    LET err_str == lower(e.text)
    IN  \E k \in 1..Len(FallbackWords) : StrIn(FallbackWords[k], err_str)

\* an invocation that has not yet made its primary call; primary, fallback
\* and outcome hold at most one value each, trace the calls made so far
Invocation(mode, messages) ==
    [mode |-> mode, messages |-> messages, at |-> "try", primary |-> <<>>,
     fallback |-> <<>>, outcome |-> <<>>, trace |-> <<>>]

\* the try block: llm.invoke(messages), or await llm.ainvoke(messages); the
\* call returns a response, which the invocation returns, or raises.  A
\* cancellation of the awaited call is no Exception and leaves the coroutine.
LlmInvoke ==
    /\ llm # NoInvocation
    /\ llm.at = "try"
    /\ \/ \E response \in PrimaryResponses :
             llm' = [llm EXCEPT !.at = "done", !.primary = <<response>>,
                                !.outcome = <<response>>,
                                !.trace = Append(@, "primary")]
       \/ \E e \in PrimaryErrors :
             llm' = [llm EXCEPT !.at = "except", !.primary = <<e>>,
                                !.trace = Append(@, "primary")]
       \/ /\ llm.mode = "async"
          /\ llm' = [llm EXCEPT !.at = "done",
                                !.primary = << [raised |-> "CancelledError", text |-> ""] >>,
                                !.outcome = << [raised |-> "CancelledError", text |-> ""] >>,
                                !.trace = Append(@, "primary")]
    /\ UNCHANGED <<metadata, standard, now, pc, engine, rule_results, runs, log, calls>>

\* the except clause: the fallback is called when the error text holds one
\* of the words, otherwise the exception is raised again
LlmExcept ==
    /\ llm # NoInvocation
    /\ llm.at = "except"
    /\ llm' = IF ShouldFallback(llm.primary[1])
              THEN [llm EXCEPT !.at = "fallback", !.trace = Append(@, "fallback")]
              ELSE [llm EXCEPT !.at = "done", !.outcome = <<llm.primary[1]>>]
    /\ UNCHANGED <<metadata, standard, now, pc, engine, rule_results, runs, log, calls>>

\* the fallback ends: content = fallback_gemini_rapidapi(messages), directly
\* or in the executor of the running loop; its answer is returned as an
\* AIMessage, its exception leaves the invocation
LlmFallback ==
    /\ llm # NoInvocation
    /\ llm.at = "fallback"
    /\ \E reply \in FallbackReplies :
          LET content == fallback_gemini_rapidapi(llm.messages, reply)
          IN  llm' = [llm EXCEPT
                         !.at = "done",
                         !.fallback = <<content>>,
                         !.outcome = IF Raised(content) THEN <<content>>
                                     ELSE << AIMessage(content.content) >>]
    /\ UNCHANGED <<metadata, standard, now, pc, engine, rule_results, runs, log, calls>>

\* an invocation of either wrapper begins; no request is being handled
InitLlm ==
    /\ metadata = [total_rows |-> 0]
    /\ standard = "General Transaction"
    /\ now = Now0
    /\ pc = "received"
    /\ engine = NoEngine
    /\ rule_results = NoResult
    /\ runs = 1
    /\ log = <<>>
    /\ calls = <<>>
    /\ llm \in { Invocation(mode, messages) :
                    mode \in {"sync", "async"}, messages \in MessageLists }

NextLlm == LlmInvoke \/ LlmExcept \/ LlmFallback

SpecLlm == InitLlm /\ [][NextLlm]_vars

-----------------------------------------------------------------------------
(* Vocabulary of the properties *)

\* the evaluation that completed last
Last == log[Len(log)]

Completed == pc \in {"returned", "raised"}

\* the metadata carries a columns mapping
HasColumnsMapping == "columns" \in DOMAIN metadata /\ metadata.columns.kind = "dict"

\* the column names of the metadata, in insertion order; none without a mapping
ColumnNames ==
    IF HasColumnsMapping
    THEN [i \in 1..Len(metadata.columns.items) |-> metadata.columns.items[i].name]
    ELSE <<>>

\* some column name contains one of the words, in any letter case
SomeNameContains(words) ==
    \E i \in 1..Len(ColumnNames) : \E w \in words : StrIn(w, lower(ColumnNames[i]))

\* the dispatcher's contract: the keyword sets in their order, and their suites
Precedence ==
    << [words |-> {"GDPR"},         suite |-> "GDPR"],
       [words |-> {"VISA", "CEDP"}, suite |-> "VISA"],
       [words |-> {"AML", "FATF"},  suite |-> "AML"],
       [words |-> {"PCI"},          suite |-> "PCI"],
       [words |-> {"BASEL"},        suite |-> "BASEL"] >>

Occurs(k, text) == \E w \in Precedence[k].words : StrIn(w, upper(text))

\* the suite of the earliest-listed keyword set that occurs in the text
EarliestListed(text) ==
    IF \E k \in 1..Len(Precedence) : Occurs(k, text)
    THEN Precedence[CHOOSE k \in 1..Len(Precedence) :
                        /\ Occurs(k, text)
                        /\ \A j \in 1..(k - 1) : ~Occurs(j, text)].suite
    ELSE "GENERAL"

\* the fixed key set of each suite
SuiteKeys(suite) ==
    CASE suite = "GDPR" ->
            {"gdpr_purpose_limitation", "gdpr_data_minimization", "gdpr_lawful_basis",
             "gdpr_storage_limitation", "gdpr_access_restriction", "gdpr_metadata_analytics"}
      [] suite = "VISA" ->
            {"visa_data_classification", "visa_secure_handling",
             "visa_no_unauthorized_storage", "visa_transaction_completeness",
             "visa_fraud_readiness", "visa_cross_system_consistency"}
      [] suite = "AML" ->
            {"aml_kyc_identifier", "aml_address_completeness", "aml_source_of_funds",
             "aml_traceability", "aml_suspicious_patterns", "aml_audit_trail"}
      [] suite = "PCI" ->
            {"pci_no_cvv", "pci_pan_masking", "pci_restricted_access",
             "pci_secure_transmission", "pci_data_lifecycle", "pci_metadata_processing"}
      [] suite = "BASEL" ->
            {"basel_amount_accuracy", "basel_arithmetic_consistency",
             "basel_referential_integrity", "basel_duplicate_prevention",
             "basel_cross_ledger", "basel_timeliness"}
      [] OTHER ->
            {"completeness_mandatory_columns", "completeness_mandatory_nulls",
             "completeness_address", "completeness_kyc_id", "completeness_source_of_funds",
             "completeness_audit_trail", "completeness_enhanced_data",
             "validity_date_format", "validity_currency_code", "validity_country_code",
             "validity_name_pattern", "validity_field_length", "validity_regex_conformity",
             "validity_schema_type",
             "accuracy_impossible_date", "accuracy_negative_amounts", "accuracy_arithmetic",
             "accuracy_null_clusters",
             "uniqueness_transaction_id", "uniqueness_composite_key", "uniqueness_primary_key",
             "consistency_status_mismatch", "consistency_currency_country",
             "consistency_schema_drift",
             "timeliness_dataset_age", "timeliness_late_ingestion",
             "integrity_referential",
             "security_pan_storage", "security_cvv_storage", "security_metadata_only"}

Suites == {"GENERAL", "GDPR", "VISA", "AML", "PCI", "BASEL"}

\* how many keys start with the prefix
PrefixCount(keys, prefix) ==
    Cardinality({k \in keys : Len(k) >= Len(prefix) /\ SubSeq(k, 1, Len(prefix)) = prefix})

-----------------------------------------------------------------------------
(* C1 *)

\* C1: run_compliance runs exactly one suite, that of the earliest-listed
\* keyword set (GDPR, then VISA or CEDP, then AML or FATF, then PCI, then
\* BASEL) occurring in the upper-cased text, and General when none occurs;
\* "PCI-GDPR-HYBRID" and "gdpr+pci hybrid" run GDPR, "unknown" runs General.
C1_DispatchPrecedence ==
    \A i \in 1..Len(log) :
        /\ log[i].suite = EarliestListed(standard)
        /\ standard \in {"PCI-GDPR-HYBRID", "gdpr+pci hybrid"} => log[i].suite = "GDPR"
        /\ standard = "unknown" => log[i].suite = "GENERAL"
        /\ ~Raised(log[i].outcome) => DOMAIN log[i].outcome = SuiteKeys(EarliestListed(standard))

\* a text holding PCI before GDPR has run the GDPR suite
C1_Witness ==
    /\ pc = "returned"
    /\ standard = "PCI-GDPR-HYBRID"
    /\ Last.suite = "GDPR"
    /\ "gdpr_lawful_basis" \in DOMAIN rule_results

-----------------------------------------------------------------------------
(* C2 *)

\* C2: whenever run_compliance returns, the keys of the result are the fixed
\* key set of the resolved standard: 30 for General (7 completeness_, 7
\* validity_, 4 accuracy_, 3 uniqueness_, 3 consistency_, 2 timeliness_, 1
\* integrity_, 3 security_), 6 for each other standard, all with the
\* standard's prefix, and no key of another standard's set.
C2_FixedKeySets ==
    pc = "returned" =>
        LET keys == DOMAIN rule_results
            suite == Last.suite
        IN  /\ keys = SuiteKeys(suite)
            /\ \A other \in Suites \ {suite} : keys \cap SuiteKeys(other) = {}
            /\ suite = "GENERAL" =>
                 /\ Cardinality(keys) = 30
                 /\ PrefixCount(keys, "completeness_") = 7
                 /\ PrefixCount(keys, "validity_") = 7
                 /\ PrefixCount(keys, "accuracy_") = 4
                 /\ PrefixCount(keys, "uniqueness_") = 3
                 /\ PrefixCount(keys, "consistency_") = 3
                 /\ PrefixCount(keys, "timeliness_") = 2
                 /\ PrefixCount(keys, "integrity_") = 1
                 /\ PrefixCount(keys, "security_") = 3
            /\ suite = "GDPR"  => PrefixCount(keys, "gdpr_") = 6 /\ Cardinality(keys) = 6
            /\ suite = "VISA"  => PrefixCount(keys, "visa_") = 6 /\ Cardinality(keys) = 6
            /\ suite = "AML"   => PrefixCount(keys, "aml_") = 6 /\ Cardinality(keys) = 6
            /\ suite = "PCI"   => PrefixCount(keys, "pci_") = 6 /\ Cardinality(keys) = 6
            /\ suite = "BASEL" => PrefixCount(keys, "basel_") = 6 /\ Cardinality(keys) = 6

\* the General suite has returned its 30 results for a metadata without columns
C2_Witness ==
    /\ pc = "returned"
    /\ Last.suite = "GENERAL"
    /\ HasColumnsMapping /\ metadata.columns.items = <<>>
    /\ Cardinality(DOMAIN rule_results) = 30

-----------------------------------------------------------------------------
(* C3 *)

\* C3: for every standard and every metadata with a columns mapping and a
\* total_rows (0 included), run_compliance returns a result for every check
\* and never raises, whichever optional column fields are absent.
C3_NeverRaises ==
    (Completed /\ HasColumnsMapping) =>
        /\ pc = "returned"
        /\ DOMAIN rule_results = SuiteKeys(Last.suite)

-----------------------------------------------------------------------------
(* C4 *)

\* C4: when columns is absent or is not a mapping, the evaluation fails as a
\* whole for every standard: run_compliance never returns a result mapping.
C4_AbortsWithoutColumns ==
    ~HasColumnsMapping => pc # "returned"

-----------------------------------------------------------------------------
(* C5 *)

\* the inventory's pass threshold of each rule key
Threshold(key) ==
    CASE key \in {"completeness_mandatory_columns", "completeness_kyc_id",
                  "completeness_source_of_funds", "completeness_audit_trail",
                  "completeness_enhanced_data", "accuracy_negative_amounts",
                  "security_pan_storage", "security_cvv_storage",
                  "gdpr_metadata_analytics", "visa_no_unauthorized_storage",
                  "visa_transaction_completeness", "visa_cross_system_consistency",
                  "aml_kyc_identifier", "aml_address_completeness", "aml_source_of_funds",
                  "aml_traceability", "aml_suspicious_patterns", "aml_audit_trail",
                  "pci_no_cvv", "pci_pan_masking", "pci_metadata_processing",
                  "basel_amount_accuracy"}
            -> [op |-> "=", k |-> 100]
      [] key \in {"uniqueness_transaction_id", "uniqueness_primary_key"}
            -> [op |-> ">", k |-> 99]
      [] key \in {"completeness_mandatory_nulls", "validity_currency_code",
                  "validity_country_code"}
            -> [op |-> ">", k |-> 95]
      [] key \in {"completeness_address", "validity_date_format",
                  "validity_regex_conformity", "basel_referential_integrity",
                  "basel_duplicate_prevention"}
            -> [op |-> ">", k |-> 90]
      [] key \in {"accuracy_null_clusters", "timeliness_dataset_age",
                  "timeliness_late_ingestion", "integrity_referential",
                  "gdpr_data_minimization", "gdpr_lawful_basis", "visa_fraud_readiness",
                  "basel_cross_ledger"}
            -> [op |-> ">", k |-> 80]
      [] key \in {"pci_restricted_access"}
            -> [op |-> ">", k |-> 60]
      [] key \in {"gdpr_access_restriction", "pci_data_lifecycle"}
            -> [op |-> ">", k |-> 50]
      [] key \in {"gdpr_storage_limitation"}
            -> [op |-> ">", k |-> 0]
      [] key \in {"validity_name_pattern", "validity_field_length", "validity_schema_type",
                  "accuracy_impossible_date", "accuracy_arithmetic",
                  "uniqueness_composite_key", "consistency_status_mismatch",
                  "consistency_currency_country", "consistency_schema_drift",
                  "security_metadata_only", "gdpr_purpose_limitation",
                  "visa_data_classification", "visa_secure_handling",
                  "pci_secure_transmission", "basel_arithmetic_consistency",
                  "basel_timeliness"}
            -> [op |-> "fixed", k |-> 100]

\* C5: in every result, passed is the comparison of that check's score with
\* the check's fixed threshold (= 100, or > 99, 95, 90, 80, 60, 50, 0 as the
\* inventory lists it), and a fixed-pass check has score 100 and passed.
C5_PassedFromScore ==
    pc = "returned" =>
        \A key \in DOMAIN rule_results :
            LET r == rule_results[key]
                t == Threshold(key)
            IN  CASE t.op = "="     -> r.passed = (r.score.num = t.k * r.score.den)
                  [] t.op = ">"     -> r.passed = (r.score.num > t.k * r.score.den)
                  [] t.op = "fixed" -> r.passed /\ r.score = Num(100)

\* a uniqueness ratio above 100 has passed: passed is not score = 100
C5_Witness ==
    /\ pc = "returned"
    /\ Last.suite = "GENERAL"
    /\ rule_results.uniqueness_transaction_id.score.num
           > 100 * rule_results.uniqueness_transaction_id.score.den
    /\ rule_results.uniqueness_transaction_id.passed
    /\ ~rule_results.accuracy_negative_amounts.passed

-----------------------------------------------------------------------------
(* C6 *)

RecencyKeys == {"timeliness_dataset_age", "timeliness_late_ingestion"}

\* C6: two evaluations of the same metadata and standard text give the same
\* outcome when they read the same time; under the five suites other than
\* General they give the same outcome at any times, and under General only
\* the recency results may differ.
C6_Deterministic ==
    \A i, j \in 1..Len(log) :
        /\ (log[i].clock = log[j].clock \/ log[i].suite # "GENERAL")
              => log[i].outcome = log[j].outcome
        /\ Raised(log[i].outcome) <=> Raised(log[j].outcome)
        /\ ~Raised(log[i].outcome) =>
              \A key \in DOMAIN log[i].outcome \ RecencyKeys :
                  log[i].outcome[key] = log[j].outcome[key]

\* the Basel suite has run a second time, a day later, on a metadata with a
\* dated column
C6_Witness ==
    /\ Len(log) = 2
    /\ log[1].suite = "BASEL"
    /\ log[1].clock # log[2].clock
    /\ ~Raised(log[2].outcome)
    /\ HasColumnsMapping
    /\ \E i \in 1..Len(metadata.columns.items) :
           "max_date" \in DOMAIN metadata.columns.items[i].stats

-----------------------------------------------------------------------------
(* C7 *)

\* C7: no step of an evaluation changes the metadata: its columns (key set,
\* key order, every profile) and total_rows stay as they were, and the engine
\* holds that same metadata.
C7_MetadataUnchanged ==
    [][ /\ metadata' = metadata
        /\ pc' \in {"constructed", "returned", "raised"} =>
              /\ engine'.metadata = metadata
              /\ engine'.total_rows = metadata.total_rows
              /\ "columns" \in DOMAIN metadata => engine'.columns = metadata.columns ]_vars

\* General has returned for a metadata of two columns, one without
\* null_percentage
C7_Witness ==
    /\ pc = "returned"
    /\ Last.suite = "GENERAL"
    /\ HasColumnsMapping
    /\ Len(metadata.columns.items) = 2
    /\ \E i \in 1..2 : "null_percentage" \notin DOMAIN metadata.columns.items[i].stats
    /\ engine.metadata = metadata

-----------------------------------------------------------------------------
(* C8 *)

\* C8: under PCI DSS, pci_no_cvv has score 0 and passed = False whenever some
\* column name contains cvv, cvc or cid in any letter case (a column
\* "cvv_code" among them), whatever the other columns are, and score 100 and
\* passed = True when none does.
C8_PciNoCvv ==
    (Completed /\ HasColumnsMapping /\ Last.suite = "PCI") =>
        /\ pc = "returned"
        /\ LET r == rule_results.pci_no_cvv
           IN  /\ SomeNameContains({"cvv", "cvc", "cid"})
                     => r.score = Num(0) /\ r.passed = FALSE
               /\ ~SomeNameContains({"cvv", "cvc", "cid"})
                     => r.score = Num(100) /\ r.passed = TRUE
               /\ (\E i \in 1..Len(ColumnNames) : ColumnNames[i] = "cvv_code")
                     => r.score = Num(0) /\ r.passed = FALSE

\* PCI has failed pci_no_cvv for an upper-case CID column beside another column
C8_Witness ==
    /\ pc = "returned"
    /\ Last.suite = "PCI"
    /\ Len(ColumnNames) = 2
    /\ ColumnNames[2] = "Card_CID"
    /\ rule_results.pci_no_cvv.score = Num(0)
    /\ ~rule_results.pci_no_cvv.passed

-----------------------------------------------------------------------------
(* C9 *)

\* C9: under AML/FATF, aml_kyc_identifier has score 0 and passed = False
\* exactly when no column name contains kyc, passport, ssn, national_id or
\* customer_id in any letter case, and score 100 and passed = True exactly
\* when one does.
C9_AmlKycIdentifier ==
    (Completed /\ HasColumnsMapping /\ Last.suite = "AML") =>
        /\ pc = "returned"
        /\ LET r == rule_results.aml_kyc_identifier
               some == SomeNameContains({"kyc", "passport", "ssn", "national_id",
                                         "customer_id"})
           IN  /\ (r.score = Num(0) /\ r.passed = FALSE) <=> ~some
               /\ (r.score = Num(100) /\ r.passed = TRUE) <=> some

\* AML has failed aml_kyc_identifier for a metadata whose columns name no KYC
\* identifier
C9_Witness ==
    /\ pc = "returned"
    /\ Last.suite = "AML"
    /\ Len(ColumnNames) = 2
    /\ rule_results.aml_kyc_identifier.score = Num(0)
    /\ ~rule_results.aml_kyc_identifier.passed

-----------------------------------------------------------------------------
(* C10 *)

\* the positions of the columns whose name contains id, uuid or key
IdPositions ==
    {i \in 1..Len(ColumnNames) :
        \E w \in {"id", "uuid", "key"} : StrIn(w, lower(ColumnNames[i]))}

\* C10: under General, uniqueness_transaction_id is computed from the first
\* column, in insertion order, whose name matches id|uuid|key: 100 if its
\* unique_count (0 when the profile has none) equals total_rows, otherwise
\* unique_count / total_rows * 100; 0 when no column matches; passed iff
\* score > 99.  With total_rows = 100 and the single column "id",
\* unique_count = 100 gives 100 and passed, unique_count = 50 gives 50 and
\* not passed.
C10_UniquenessRatio ==
    (pc = "returned" /\ Last.suite = "GENERAL") =>
        LET r == rule_results.uniqueness_transaction_id
            first == CHOOSE i \in IdPositions : \A j \in IdPositions : i <= j
            stats == metadata.columns.items[first].stats
            unique_count == IF "unique_count" \in DOMAIN stats THEN stats.unique_count ELSE 0
            single == Len(ColumnNames) = 1 /\ ColumnNames[1] = "id"
                        /\ metadata.total_rows = 100
        IN  /\ IdPositions = {} => r.score = Num(0)
            /\ (IdPositions # {} /\ unique_count = metadata.total_rows)
                  => r.score = Num(100)
            /\ (IdPositions # {} /\ unique_count # metadata.total_rows)
                  => /\ r.score.num * metadata.total_rows = unique_count * 100 * r.score.den
                     /\ r.score.den > 0
            /\ r.passed <=> (r.score.num > 99 * r.score.den)
            /\ (single /\ unique_count = 100) => r.score = Num(100) /\ r.passed
            /\ (single /\ unique_count = 50) => r.score = Num(50) /\ ~r.passed

\* the first of two identifier columns is half unique, the second fully
\* unique, and the score is 50
C10_Witness ==
    /\ pc = "returned"
    /\ Last.suite = "GENERAL"
    /\ metadata.total_rows = 100
    /\ IdPositions = {1, 2}
    /\ ColumnNames = <<"id", "customer_id">>
    /\ metadata.columns.items[1].stats.unique_count = 50
    /\ metadata.columns.items[2].stats.unique_count = 100
    /\ rule_results.uniqueness_transaction_id.score = Num(50)
    /\ ~rule_results.uniqueness_transaction_id.passed

-----------------------------------------------------------------------------
(* C11 *)

\* the max_date strings of the columns that carry one, in insertion order
MaxDates ==
    IF ~HasColumnsMapping THEN <<>>
    ELSE LET dated == SelectSeq(metadata.columns.items,
                                LAMBDA it : "max_date" \in DOMAIN it.stats)
         IN  [i \in 1..Len(dated) |-> dated[i].stats.max_date]

\* C11: under General, timeliness_dataset_age.score is 100 when no column
\* carries max_date; otherwise it is 0 when the greatest max_date cannot be
\* parsed as ISO 8601 and, when it can, with age_days the days from it to the
\* reference time, 100 if age_days <= 30 and max(0, 100 - (age_days - 30))
\* otherwise; passed iff score > 80; 45 days give 85, 10 days give 100, 130
\* days or more give 0.
C11_RecencyDecay ==
    (pc = "returned" /\ Last.suite = "GENERAL") =>
        LET r == rule_results.timeliness_dataset_age
            greatest == StrMax(MaxDates)
            age_days == Last.clock - FromIsoFormat(greatest)
        IN  /\ MaxDates = <<>> => r.score = Num(100)
            /\ (MaxDates # <<>> /\ ~IsoParses(greatest)) => r.score = Num(0)
            /\ (MaxDates # <<>> /\ IsoParses(greatest)) =>
                  /\ age_days <= 30 => r.score = Num(100)
                  /\ (age_days > 30 /\ age_days < 130)
                        => r.score = Num(100 - (age_days - 30))
                  /\ age_days >= 130 => r.score = Num(0)
                  /\ age_days = 45 => r.score = Num(85)
                  /\ age_days = 10 => r.score = Num(100)
            /\ r.passed <=> Gt(r.score, 80)

-----------------------------------------------------------------------------
(* C12 *)

\* the greatest max_date of the metadata is not ISO 8601
GreatestMalformed == MaxDates # <<>> /\ ~IsoParses(StrMax(MaxDates))

\* the metadata with every malformed max_date replaced by a well-formed one,
\* 10 days before Now0
WellFormedTwin ==
    [metadata EXCEPT !.columns.items =
        [i \in 1..Len(@) |->
            IF "max_date" \in DOMAIN @[i].stats /\ ~IsoParses(@[i].stats.max_date)
            THEN [@[i] EXCEPT !.stats.max_date = "2024-02-20"]
            ELSE @[i]]]

\* what the evaluation gives for the twin, at the same time
TwinOutcome == run_compliance(RulesEngine(WellFormedTwin), standard, Last.clock)

\* the malformed date is visible in the results of these keys only
MalformedVisibleIn(keys) ==
    (Completed /\ Last.suite = "GENERAL" /\ GreatestMalformed) =>
        /\ Raised(rule_results) <=> Raised(TwinOutcome)
        /\ pc = "returned" =>
              /\ DOMAIN rule_results = SuiteKeys("GENERAL")
              /\ Cardinality(DOMAIN rule_results) = 30
              /\ \A key \in keys :
                    rule_results[key].score = Num(0) /\ ~rule_results[key].passed
              /\ \A key \in DOMAIN rule_results \ keys :
                    rule_results[key] = TwinOutcome[key]

\* C12, as stated: a malformed greatest max_date never aborts the General
\* suite, which still returns its 30 results; timeliness_dataset_age gets
\* score 0, and every other rule result is what the same metadata with a
\* well-formed, recent max_date gets.
C12_OnlyDatasetAge == MalformedVisibleIn({"timeliness_dataset_age"})

\* C12, amended: a malformed greatest max_date never aborts the General
\* suite, which still returns its 30 results; timeliness_dataset_age and
\* timeliness_late_ingestion, which reuses its score, get score 0, and every
\* other rule result is what the same metadata with a well-formed, recent
\* max_date gets.
C12_MalformedDateLocal == MalformedVisibleIn(RecencyKeys)

\* General has returned for two columns whose greatest max_date is "n/a":
\* both timeliness results are 0 where the twin passes them
C12_Witness ==
    /\ pc = "returned"
    /\ Last.suite = "GENERAL"
    /\ MaxDates = <<"2024-02-20", "n/a">>
    /\ rule_results.timeliness_dataset_age.score = Num(0)
    /\ rule_results.timeliness_late_ingestion.score = Num(0)
    /\ TwinOutcome.timeliness_late_ingestion.score = Num(100)
    /\ rule_results.validity_date_format = TwinOutcome.validity_date_format

-----------------------------------------------------------------------------
(* C13 *)

\* some alternative of the pattern occurs somewhere in the name, letter case
\* ignored
MatchesSomewhere(alts, name) ==
    LET NAME == upper(name)
    IN  \E k \in 1..Len(alts) :
            LET ALT == upper(alts[k])
            IN  \E i \in 1..(Len(NAME) - Len(ALT) + 1) :
                    SubSeq(NAME, i, i + Len(ALT) - 1) = ALT

\* patterns the suites pass to _get_columns_by_pattern
MatcherPatterns ==
    { KycPattern, CvvPattern, IdPattern, <<"date", "time">>, <<"email">> }

\* where a name stands in the metadata
PositionOf(name) == CHOOSE j \in 1..Len(ColumnNames) : ColumnNames[j] = name

\* C13: _get_columns_by_pattern(pattern) returns exactly the column names in
\* which the pattern matches somewhere, letter case ignored: every returned
\* name is a matching column name, every matching column name is returned,
\* each once, in the metadata's insertion order.
C13_MatcherExact ==
    (Completed /\ HasColumnsMapping) =>
        \A alts \in MatcherPatterns :
            LET got == _get_columns_by_pattern(engine, alts)
            IN  /\ \A i \in 1..Len(got) :
                      /\ \E j \in 1..Len(ColumnNames) : ColumnNames[j] = got[i]
                      /\ MatchesSomewhere(alts, got[i])
                /\ \A j \in 1..Len(ColumnNames) :
                      MatchesSomewhere(alts, ColumnNames[j])
                          => \E i \in 1..Len(got) : got[i] = ColumnNames[j]
                /\ \A i, j \in 1..Len(got) :
                      i < j => PositionOf(got[i]) < PositionOf(got[j])

\* AML has run on the columns "notes" and "Passport": the KYC pattern, all
\* lower-case in the source, selects the capitalised name and only it
C13_Witness ==
    /\ pc = "returned"
    /\ Last.suite = "AML"
    /\ ColumnNames = <<"notes", "Passport">>
    /\ _get_columns_by_pattern(engine, KycPattern) = <<"Passport">>
    /\ rule_results.aml_kyc_identifier.score = Num(100)

-----------------------------------------------------------------------------
(* C14 *)

\* the inventory's weight of each rule key
Weight(key) ==
    CASE key \in {"integrity_referential"} -> 7
      [] key \in {"completeness_kyc_id", "accuracy_negative_amounts",
                  "uniqueness_transaction_id", "security_pan_storage",
                  "security_cvv_storage",
                  "gdpr_purpose_limitation", "gdpr_data_minimization",
                  "gdpr_lawful_basis", "gdpr_metadata_analytics",
                  "visa_data_classification", "visa_no_unauthorized_storage",
                  "visa_transaction_completeness",
                  "aml_kyc_identifier", "aml_address_completeness",
                  "aml_source_of_funds", "aml_traceability",
                  "pci_no_cvv", "pci_pan_masking", "pci_metadata_processing",
                  "basel_amount_accuracy", "basel_referential_integrity",
                  "basel_duplicate_prevention"} -> 5
      [] key \in {"completeness_mandatory_columns", "completeness_mandatory_nulls",
                  "validity_date_format", "accuracy_impossible_date",
                  "accuracy_arithmetic", "consistency_status_mismatch",
                  "timeliness_dataset_age",
                  "gdpr_storage_limitation", "gdpr_access_restriction",
                  "visa_secure_handling", "visa_cross_system_consistency",
                  "aml_suspicious_patterns", "pci_data_lifecycle",
                  "basel_arithmetic_consistency", "basel_timeliness"} -> 4
      [] key \in {"completeness_address", "completeness_source_of_funds",
                  "validity_currency_code", "validity_country_code",
                  "validity_name_pattern", "uniqueness_composite_key",
                  "consistency_currency_country", "consistency_schema_drift",
                  "visa_fraud_readiness", "aml_audit_trail",
                  "pci_restricted_access", "pci_secure_transmission",
                  "basel_cross_ledger"} -> 3
      [] key \in {"completeness_audit_trail", "validity_field_length",
                  "validity_regex_conformity", "accuracy_null_clusters",
                  "uniqueness_primary_key", "timeliness_late_ingestion",
                  "security_metadata_only"} -> 2
      [] key \in {"completeness_enhanced_data", "validity_schema_type"} -> 1

\* C14: the weight of every rule result is the positive integer the
\* inventory fixes for its key (7 for integrity_referential, 5 for
\* pci_no_cvv, 1 for validity_schema_type), whatever the metadata; and the
\* mapping run_compliance returns holds rule results only, each of a score,
\* a weight, a passed flag and details: no sum, normalisation or aggregate.
C14_FixedWeights ==
    pc = "returned" =>
        /\ DOMAIN rule_results \subseteq SuiteKeys(Last.suite)
        /\ \A key \in DOMAIN rule_results :
              /\ DOMAIN rule_results[key] = {"score", "weight", "passed", "details"}
              /\ rule_results[key].weight = Weight(key)
              /\ rule_results[key].weight \in Nat \ {0}
        /\ "integrity_referential" \in DOMAIN rule_results
              => rule_results.integrity_referential.weight = 7
        /\ "pci_no_cvv" \in DOMAIN rule_results => rule_results.pci_no_cvv.weight = 5
        /\ "validity_schema_type" \in DOMAIN rule_results
              => rule_results.validity_schema_type.weight = 1

\* General has returned with a failed integrity_referential, of weight 7 as
\* when it passes
C14_Witness ==
    /\ pc = "returned"
    /\ Last.suite = "GENERAL"
    /\ ~rule_results.integrity_referential.passed
    /\ rule_results.integrity_referential.weight = 7
    /\ rule_results.validity_schema_type.weight = 1

-----------------------------------------------------------------------------
(* C15 *)

\* C15: the outcome of every call of run_compliance on an engine is what a
\* call alone on a fresh engine of the same metadata gives for that standard,
\* whatever calls began, ran or ended before or during it; no call writes the
\* engine, whose results field stays as the constructor left it.
C15_CallsIndependent ==
    /\ pc # "received" =>
          /\ engine = RulesEngine(metadata)
          /\ engine.results = <<>>
    /\ \A i \in 1..Len(log) :
          log[i].outcome = RunSuite(log[i].suite, RulesEngine(metadata), log[i].clock)

\* a General call began first and returned last: a GDPR call began and
\* returned while it was running
C15_Witness ==
    /\ Len(calls) = 2
    /\ calls[1].suite = "GENERAL" /\ calls[1].state = "returned"
    /\ calls[2].suite = "GDPR" /\ calls[2].state = "returned"
    /\ Len(log) = 2
    /\ log[1].suite = "GDPR"
    /\ log[2].suite = "GENERAL"
    /\ Cardinality(DOMAIN log[2].outcome) = 30

-----------------------------------------------------------------------------
(* Vocabulary of the properties on column profiles *)

\* the columns of the metadata, name and profile, in insertion order; none
\* without a mapping
Profiles == IF HasColumnsMapping THEN metadata.columns.items ELSE <<>>

\* the positions of the columns whose name has the role of the pattern
RolePositions(alts) ==
    {i \in 1..Len(Profiles) : MatchesSomewhere(alts, Profiles[i].name)}

\* the profile carries the field
Has(stats, field) == field \in DOMAIN stats

-----------------------------------------------------------------------------
(* C16 *)

\* some column with the PAN role (pan or card_num in its name, in any letter
\* case) has "raw" in its name, in any letter case
SomeRawPan ==
    \E i \in 1..Len(ColumnNames) :
        /\ MatchesSomewhere(<<"pan", "card_num">>, ColumnNames[i])
        /\ MatchesSomewhere(<<"raw">>, ColumnNames[i])

\* C16: under PCI DSS, pci_pan_masking has score 0 and passed = False when
\* some column whose name matches pan|card_num, letter case ignored, has
\* "raw" in its name in any letter case ("RAW_PAN" as well as "raw_pan"),
\* and score 100 and passed = True otherwise.
C16_PanMasking ==
    (pc = "returned" /\ Last.suite = "PCI") =>
        LET r == rule_results.pci_pan_masking
        IN  /\ SomeRawPan => r.score = Num(0) /\ r.passed = FALSE
            /\ ~SomeRawPan => r.score = Num(100) /\ r.passed = TRUE

-----------------------------------------------------------------------------
(* C17 *)

\* the numeric amount-like columns
NumericAmounts ==
    {i \in RolePositions(<<"amount", "price", "cost", "value", "balance">>) :
        Has(Profiles[i].stats, "is_numeric") /\ Profiles[i].stats.is_numeric = TRUE}

\* C17: under General, accuracy_negative_amounts scores the share of the
\* numeric amount-like columns that are not violations, where a column is a
\* violation only when it records a min and that min is <= 0 (a column
\* without min is not one); the score is 100 when there is no numeric
\* amount-like column; passed iff score = 100.
C17_NegativeAmounts ==
    (pc = "returned" /\ Last.suite = "GENERAL") =>
        LET r == rule_results.accuracy_negative_amounts
            violations == {i \in NumericAmounts :
                              Has(Profiles[i].stats, "min") /\ Profiles[i].stats.min <= 0}
            total == Cardinality(NumericAmounts)
        IN  /\ total = 0 => r.score = Num(100)
            /\ total # 0 =>
                  r.score = Frac((total - Cardinality(violations)) * 100, total)
            /\ r.passed <=> Eq(r.score, 100)

-----------------------------------------------------------------------------
(* C18 *)

\* the statistic-derived validity checks: key, role pattern, field, threshold
ValidityChecks ==
    { [key |-> "validity_date_format", alts |-> <<"date", "time">>,
       field |-> "iso_date_match_percentage", over |-> 90],
      [key |-> "validity_currency_code", alts |-> <<"currency", "curr">>,
       field |-> "currency_code_match_percentage", over |-> 95],
      [key |-> "validity_country_code", alts |-> <<"country", "cntry", "nation">>,
       field |-> "country_code_match_percentage", over |-> 95],
      [key |-> "validity_regex_conformity", alts |-> <<"email">>,
       field |-> "email_match_percentage", over |-> 90] }

\* the sum of the field over the columns at the positions, 0 for a column
\* without it
FieldSum(positions, field) ==
    SumSeq([i \in 1..Len(Profiles) |->
              IF i \in positions /\ Has(Profiles[i].stats, field)
              THEN Profiles[i].stats[field] ELSE 0])

\* some matched column of the check has no match percentage
SomeLacking(c) ==
    \E i \in RolePositions(c.alts) : ~Has(Profiles[i].stats, c.field)

\* each validity check scores the average of its field over the matched
\* columns, a column without the field counting 0, and 100 on no match;
\* passed iff the score is over the threshold
AveragesMatchField ==
    \A c \in ValidityChecks :
        LET r == rule_results[c.key]
            matched == RolePositions(c.alts)
        IN  /\ matched = {} => r.score = Num(100)
            /\ matched # {} =>
                  r.score = Frac(FieldSum(matched, c.field), Cardinality(matched))
            /\ r.passed <=> Gt(r.score, c.over)

\* C18, as stated: each statistic-derived validity check scores the average
\* of its match percentage over the matched columns (100 on no match), a
\* matched column without the field contributing 0, so that one such column
\* is enough for the check to fail its threshold.
C18_OneLackingFails ==
    (pc = "returned" /\ Last.suite = "GENERAL") =>
        /\ AveragesMatchField
        /\ \A c \in ValidityChecks : SomeLacking(c) => ~rule_results[c.key].passed

\* C18, amended: each statistic-derived validity check scores the average of
\* its match percentage over the matched columns (100 on no match), a
\* matched column without the field contributing 0; one such column makes
\* the check fail when 100 * (n - 1) / n is not over the threshold for the n
\* matched columns, that is for n <= 10 (> 90) and n <= 20 (> 95), a single
\* matched column without the field scoring 0.
C18_ValidityAverages ==
    (pc = "returned" /\ Last.suite = "GENERAL") =>
        /\ AveragesMatchField
        /\ \A c \in ValidityChecks :
              LET n == Cardinality(RolePositions(c.alts))
              IN  /\ (SomeLacking(c) /\ 100 * (n - 1) <= c.over * n)
                        => ~rule_results[c.key].passed
                  /\ (SomeLacking(c) /\ n <= (IF c.over = 90 THEN 10 ELSE 20))
                        => ~rule_results[c.key].passed
                  /\ (SomeLacking(c) /\ n = 1) => rule_results[c.key].score = Num(0)

\* eleven date columns, one of them without iso_date_match_percentage:
\* validity_date_format scores 1000/11 and passes
C18_Witness ==
    /\ pc = "returned"
    /\ Last.suite = "GENERAL"
    /\ Cardinality(RolePositions(<<"date", "time">>)) = 11
    /\ \E i \in 1..Len(Profiles) : ~Has(Profiles[i].stats, "iso_date_match_percentage")
    /\ rule_results.validity_date_format.score = [num |-> 1000, den |-> 11]
    /\ rule_results.validity_date_format.passed

-----------------------------------------------------------------------------
(* C19 *)

\* the name ends in "_id", in any letter case, after at least one character
EndsInUnderscoreId(name) ==
    /\ Len(name) > 3
    /\ upper(SubSeq(name, Len(name) - 2, Len(name))) = "_ID"

\* the columns integrity_referential considers
Considered ==
    {i \in 1..Len(Profiles) :
        /\ EndsInUnderscoreId(Profiles[i].name)
        /\ ~MatchesSomewhere(<<"transaction">>, Profiles[i].name)}

\* C19: under General, integrity_referential considers exactly the columns
\* whose name ends in "_id" after at least one character and does not
\* contain "transaction" in any letter case: its score is 100 minus 20 for
\* each of them with null_percentage above 20, floored at 0, and 100 when
\* there is none; it passes (score > 80) iff no considered column has more
\* than 20% nulls, whatever the other columns are.
C19_ReferentialIntegrity ==
    (pc = "returned" /\ Last.suite = "GENERAL") =>
        LET r == rule_results.integrity_referential
            high == {i \in Considered : Profiles[i].stats.null_percentage > 20}
            penalised == 100 - 20 * Cardinality(high)
        IN  /\ r.score = Num(IF penalised < 0 THEN 0 ELSE penalised)
            /\ Considered = {} => r.score = Num(100)
            /\ r.passed <=> Gt(r.score, 80)
            /\ r.passed <=> high = {}

\* six foreign-key columns, all half null: 100 - 120 is floored at 0
C19_Witness ==
    /\ pc = "returned"
    /\ Last.suite = "GENERAL"
    /\ Cardinality(Considered) = 6
    /\ \A i \in Considered : Profiles[i].stats.null_percentage > 20
    /\ rule_results.integrity_referential.score = Num(0)
    /\ ~rule_results.integrity_referential.passed

-----------------------------------------------------------------------------
(* C20 *)

\* the columns whose name ends in "id", in any letter case
IdEnding ==
    {i \in 1..Len(Profiles) :
        /\ Len(Profiles[i].name) >= 2
        /\ upper(SubSeq(Profiles[i].name, Len(Profiles[i].name) - 1,
                         Len(Profiles[i].name))) = "ID"}

\* the unique_count of a column, 0 when its profile has none
UniqueCount(i) ==
    IF Has(Profiles[i].stats, "unique_count") THEN Profiles[i].stats.unique_count ELSE 0

\* C20: under Basel, basel_duplicate_prevention scores 100 when no column
\* name ends in "id" (letter case ignored), 100 when some such column has
\* unique_count equal to total_rows, and 50 otherwise; passed iff score > 90,
\* so the check fails exactly when id columns exist and none is fully unique.
C20_DuplicatePrevention ==
    (pc = "returned" /\ Last.suite = "BASEL") =>
        LET r == rule_results.basel_duplicate_prevention
            fully_unique == \E i \in IdEnding : UniqueCount(i) = metadata.total_rows
        IN  /\ IdEnding = {} => r.score = Num(100)
            /\ (IdEnding # {} /\ fully_unique) => r.score = Num(100)
            /\ (IdEnding # {} /\ ~fully_unique) => r.score = Num(50)
            /\ r.passed <=> Gt(r.score, 90)
            /\ ~r.passed <=> (IdEnding # {} /\ ~fully_unique)

\* Basel has failed the check for two id columns of 100 rows, both half unique
C20_Witness ==
    /\ pc = "returned"
    /\ Last.suite = "BASEL"
    /\ ColumnNames = <<"paid", "Customer_ID">>
    /\ metadata.total_rows = 2 * RowUnit
    /\ UniqueCount(1) = RowUnit /\ UniqueCount(2) = RowUnit
    /\ rule_results.basel_duplicate_prevention.score = Num(50)
    /\ ~rule_results.basel_duplicate_prevention.passed

-----------------------------------------------------------------------------
(* C21 *)

\* C21: whenever the General suite returns, uniqueness_primary_key has the
\* score and the passed flag of uniqueness_transaction_id, and
\* timeliness_late_ingestion has those of timeliness_dataset_age, whatever the
\* metadata: with or without an identifier column, with or without a dated
\* column, and with a greatest max_date that does not parse.
C21_ReuseChecksAgree ==
    (pc = "returned" /\ Last.suite = "GENERAL") =>
        /\ rule_results.uniqueness_primary_key.score
              = rule_results.uniqueness_transaction_id.score
        /\ rule_results.uniqueness_primary_key.passed
              = rule_results.uniqueness_transaction_id.passed
        /\ rule_results.timeliness_late_ingestion.score
              = rule_results.timeliness_dataset_age.score
        /\ rule_results.timeliness_late_ingestion.passed
              = rule_results.timeliness_dataset_age.passed

\* General has returned with an identifier ratio of 50 on both uniqueness
\* results and, the greatest max_date being malformed, 0 on both timeliness
\* results
C21_Witness ==
    /\ pc = "returned"
    /\ Last.suite = "GENERAL"
    /\ GreatestMalformed
    /\ rule_results.uniqueness_transaction_id.score = Num(50)
    /\ rule_results.uniqueness_primary_key.score = Num(50)
    /\ ~rule_results.uniqueness_primary_key.passed
    /\ rule_results.timeliness_dataset_age.score = Num(0)
    /\ rule_results.timeliness_late_ingestion.score = Num(0)

-----------------------------------------------------------------------------
(* C22 *)

\* the statistics that are percentages
PercentFields ==
    { "null_percentage", "iso_date_match_percentage", "currency_code_match_percentage",
      "country_code_match_percentage", "email_match_percentage" }

\* the metadata is within the data model: total_rows > 0, every percentage in
\* [0, 100], every unique_count >= 0
InDataModel ==
    /\ metadata.total_rows > 0
    /\ \A i \in 1..Len(Profiles) :
          LET stats == Profiles[i].stats
          IN  /\ \A f \in PercentFields \cap DOMAIN stats :
                    stats[f] >= 0 /\ stats[f] <= 100
              /\ "unique_count" \in DOMAIN stats => stats.unique_count >= 0

\* the two results that carry the identifier ratio
RatioKeys == {"uniqueness_transaction_id", "uniqueness_primary_key"}

\* the unique_count of the chosen identifier column exceeds total_rows
ChosenExceedsRows ==
    /\ IdPositions # {}
    /\ LET first == CHOOSE i \in IdPositions : \A j \in IdPositions : i <= j
           stats == Profiles[first].stats
       IN  "unique_count" \in DOMAIN stats /\ stats.unique_count > metadata.total_rows

\* C22: for every standard and every metadata within the data model, every
\* returned score is >= 0, every score other than uniqueness_transaction_id
\* and uniqueness_primary_key is <= 100, and those two exceed 100 exactly when
\* the chosen identifier column has unique_count > total_rows.
C22_ScoreRange ==
    (pc = "returned" /\ InDataModel) =>
        /\ \A key \in DOMAIN rule_results :
              /\ rule_results[key].score.den > 0
              /\ rule_results[key].score.num >= 0
        /\ \A key \in DOMAIN rule_results \ RatioKeys :
              ~Gt(rule_results[key].score, 100)
        /\ \A key \in DOMAIN rule_results \cap RatioKeys :
              Gt(rule_results[key].score, 100) <=> ChosenExceedsRows

\* General has returned on a metadata within the data model whose chosen
\* identifier column has twice as many distinct values as there are rows:
\* both ratio results are 200, and completeness_address, on a fully null
\* city column, is 0
C22_Witness ==
    /\ pc = "returned"
    /\ Last.suite = "GENERAL"
    /\ InDataModel
    /\ ChosenExceedsRows
    /\ rule_results.uniqueness_transaction_id.score = Num(200)
    /\ rule_results.uniqueness_primary_key.score = Num(200)
    /\ rule_results.completeness_address.score = Num(0)

-----------------------------------------------------------------------------
(* C23 *)

\* the gates that fail on the presence of a column
ProhibitionGates ==
    { "pci_no_cvv", "pci_metadata_processing", "visa_no_unauthorized_storage",
      "gdpr_metadata_analytics", "security_pan_storage", "security_cvv_storage" }

\* the gates that pass on the presence of a column
PresenceGates ==
    { "aml_kyc_identifier", "aml_source_of_funds", "aml_traceability", "aml_audit_trail",
      "gdpr_storage_limitation", "visa_cross_system_consistency", "completeness_kyc_id",
      "completeness_audit_trail" }

\* the metadata with the column c added after its k-th column
WithColumn(c, k) ==
    [metadata EXCEPT !.columns.items =
        SubSeq(@, 1, k) \o <<c>> \o SubSeq(@, k + 1, Len(@))]

\* the metadata without its k-th column
WithoutColumn(k) ==
    [metadata EXCEPT !.columns.items = SubSeq(@, 1, k - 1) \o SubSeq(@, k + 1, Len(@))]

\* what the suite of the last evaluation gives on the metadata md
OutcomeOn(md) == RunSuite(Last.suite, RulesEngine(md), Last.clock)

\* from the results less to the results more of a metadata with one more
\* column, no prohibition gate goes from failed to passed and no presence
\* gate from passed to failed
Monotone(less, more) ==
    /\ \A g \in ProhibitionGates \cap DOMAIN less : ~less[g].passed => ~more[g].passed
    /\ \A g \in PresenceGates \cap DOMAIN less : less[g].passed => more[g].passed

\* C23: when a suite returns on a metadata and on the metadata with one more
\* column, added at any place, no prohibition gate that failed without the
\* column passes with it, and no presence gate that passed without it fails
\* with it; read from the larger metadata to the smaller, this is the opposite
\* guarantee for removing a column.
C23_GatesMonotone ==
    (pc = "returned" /\ HasColumnsMapping) =>
        \A c \in GatePool :
            (\A i \in 1..Len(ColumnNames) : ColumnNames[i] # c.name) =>
                \A k \in 0..Len(ColumnNames) :
                    LET more == OutcomeOn(WithColumn(c, k))
                    IN  ~Raised(more) => Monotone(rule_results, more)

\* GDPR has returned on the columns expires_at and ssn: the presence gate
\* gdpr_storage_limitation passes and the prohibition gate
\* gdpr_metadata_analytics fails, and without ssn the prohibition gate passes
C23_Witness ==
    /\ pc = "returned"
    /\ Last.suite = "GDPR"
    /\ ColumnNames = <<"expires_at", "ssn">>
    /\ rule_results.gdpr_storage_limitation.passed
    /\ ~rule_results.gdpr_metadata_analytics.passed
    /\ OutcomeOn(WithoutColumn(2)).gdpr_metadata_analytics.passed
    /\ OutcomeOn(WithoutColumn(2)).gdpr_storage_limitation.passed
    /\ ~OutcomeOn(WithoutColumn(1)).gdpr_storage_limitation.passed

-----------------------------------------------------------------------------
(* C24 *)

\* the calls of that name the invocation has made
CallsMade(name) == Cardinality({i \in 1..Len(llm.trace) : llm.trace[i] = name})

\* the primary call of the invocation has raised
PrimaryRaised == llm.primary # <<>> /\ Raised(llm.primary[1])

\* the lower-cased text of the primary error holds 400, 429, 500,
\* resourceexhausted, quota or getaddrinfo
PrimaryTextNamed ==
    \E w \in {"400", "429", "500", "resourceexhausted", "quota", "getaddrinfo"} :
        StrIn(w, lower(llm.primary[1].text))

\* C24: in either wrapper the fallback is called at most once, only after
\* the primary call has raised and only when the lower-cased error text holds
\* one of 400, 429, 500, resourceexhausted, quota, getaddrinfo; on any other
\* primary error the invocation ends with the original exception and no call
\* of the fallback; when the fallback fails the invocation ends with the
\* fallback's exception and no call is made after it.
C24_FallbackDiscipline ==
    llm # NoInvocation =>
        /\ CallsMade("primary") <= 1
        /\ CallsMade("fallback") <= 1
        /\ CallsMade("fallback") = 1 =>
              /\ llm.trace = <<"primary", "fallback">>
              /\ PrimaryRaised
              /\ PrimaryTextNamed
        /\ (llm.at = "done" /\ PrimaryRaised /\ ~PrimaryTextNamed) =>
              /\ llm.outcome = llm.primary
              /\ CallsMade("fallback") = 0
        /\ (llm.fallback # <<>> /\ Raised(llm.fallback[1])) =>
              /\ llm.at = "done"
              /\ llm.outcome = llm.fallback
              /\ llm.trace = <<"primary", "fallback">>

\* the asynchronous wrapper has ended with the HTTPError of its fallback,
\* called once after a primary error whose text holds 429 inside a number
C24_Witness ==
    /\ llm # NoInvocation
    /\ llm.mode = "async"
    /\ llm.at = "done"
    /\ llm.trace = <<"primary", "fallback">>
    /\ PrimaryRaised
    /\ llm.primary[1].text = "request 14290 rejected"
    /\ llm.outcome = << [raised |-> "HTTPError", text |-> "status of the fallback"] >>

=============================================================================
